---- MODULE Spec2Model ----
(***************************************************************************)
(* LinguaLint: the Responsibility Scoring Engine                           *)
(* (src/src/responsibility_analyzer.py) and the sentiment vectors of the   *)
(* Linguistic Feature Extractor (src/src/nlp_processor.py).                *)
(*                                                                         *)
(* Strings are sequences of one-character strings, so that str.lower()     *)
(* and the substring test `a in b` are computed character by character.    *)
(* Python floats are modelled as exact rationals <<numerator, denominator>>*)
(* in lowest terms; timestamps (datetime.now()) are left out.              *)
(***************************************************************************)
EXTENDS Integers, Sequences, FiniteSets, TLC

(***************************************************************************)
(* Bounds of the model.                                                    *)
(***************************************************************************)
MaxSubjects == 3
MaxSentences == 2
MaxTokens == 2
MaxSents == 2
MaxScanTokens == 4
MaxLookupFailures == 1
MaxRuns == 2

(***************************************************************************)
(* Strings.                                                                *)
(***************************************************************************)
UpperChars == <<"A","B","C","D","E","F","G","H","I","J","K","L","M",
                "N","O","P","Q","R","S","T","U","V","W","X","Y","Z">>
LowerChars == <<"a","b","c","d","e","f","g","h","i","j","k","l","m",
                "n","o","p","q","r","s","t","u","v","w","x","y","z">>

UpperToLower ==
    [c \in {UpperChars[k] : k \in 1..Len(UpperChars)} |->
        LowerChars[CHOOSE k \in 1..Len(UpperChars) : UpperChars[k] = c]]

\* one character of str.lower()
LowerChar(c) == IF c \in DOMAIN UpperToLower THEN UpperToLower[c] ELSE c

\* str.lower()
lower(s) == [k \in 1..Len(s) |-> LowerChar(s[k])]

\* Python `a in b` on strings: a occurs in b as a contiguous substring
StrIn(a, b) ==
    \E k \in 0..(Len(b) - Len(a)) : SubSeq(b, k + 1, k + Len(a)) = a

(***************************************************************************)
(* Exact arithmetic standing for Python floats.                            *)
(***************************************************************************)
RECURSIVE GCD(_, _)
GCD(a, b) == IF b = 0 THEN a ELSE GCD(b, a % b)

\* the rational n/d (n >= 0, d > 0) in lowest terms
Rat(n, d) == LET g == GCD(n, d) IN <<n \div g, d \div g>>

RInt(k) == <<k, 1>>
RAdd(x, y) == Rat(x[1] * y[2] + y[1] * x[2], x[2] * y[2])
RMul(x, y) == Rat(x[1] * y[1], x[2] * y[2])
\* x / y; the caller has established y # 0 (Python raises ZeroDivisionError)
RDiv(x, y) == Rat(x[1] * y[2], x[2] * y[1])
RLt(x, y) == x[1] * y[2] < y[1] * x[2]
RLe(x, y) == x[1] * y[2] <= y[1] * x[2]
\* Python max(x, y)
RMax(x, y) == IF RLt(x, y) THEN y ELSE x

\* a rounding that cuts the digits after the third
Round3_Truncates(x) == Rat((x[1] * 1000) \div x[2], 1000)

\* Python round(x, 3): to the nearest thousandth, ties to the even one
Round3(x) ==
    LET q == (x[1] * 1000) \div x[2]
        r == (x[1] * 1000) % x[2]
        up == \/ 2 * r > x[2]
              \/ (2 * r = x[2] /\ q % 2 = 1)
    IN Rat(IF up THEN q + 1 ELSE q, 1000)

ZeroVector == <<RInt(0), RInt(0), RInt(0)>>

(***************************************************************************)
(* Inputs: LinguaLint JSON reports (the `_source` object).                 *)
(***************************************************************************)
Ford    == <<"F","o","r","d">>
ford    == <<"f","o","r","d">>
Fordham == <<"F","o","r","d","h","a","m">>
Acme    == <<"A","c","m","e">>

EntityNames == {Ford, ford, Fordham, Acme}

TextFordham == <<"F","o","r","d","h","a","m"," ","f","e","l","l">>
TextFORD    == <<"F","O","R","D"," ","g","r","e","w">>
TextAcme    == <<"a","c","m","e"," ","w","o","n">>
TextNone    == <<"n","o","n","e">>

Sent(text, warm, cold) ==
    [sentence |-> text, warm_vector |-> warm, cold_vector |-> cold]

\* sentence objects as the extractor writes them: three floats per vector
SentenceObjects ==
    { Sent(TextFordham, ZeroVector, <<RInt(1), RInt(1), RInt(1)>>),
      Sent(TextFordham, <<Rat(1, 10), RInt(0), RInt(0)>>, <<Rat(1, 25), RInt(0), RInt(0)>>),
      Sent(TextFORD, <<Rat(1, 5), Rat(1, 10), Rat(3, 10)>>, <<Rat(1, 20), RInt(0), Rat(1, 10)>>),
      Sent(TextFORD, <<Rat(1, 2), RInt(0), RInt(0)>>, <<Rat(1, 25), RInt(0), RInt(0)>>),
      Sent(TextAcme, <<Rat(1, 5), Rat(1, 10), Rat(3, 10)>>, <<Rat(1, 20), RInt(0), Rat(1, 10)>>),
      Sent(TextAcme, <<Rat(1, 4), RInt(0), RInt(0)>>, <<Rat(1, 25), RInt(0), RInt(0)>>),
      Sent(TextAcme, ZeroVector, ZeroVector),
      Sent(TextNone, ZeroVector, ZeroVector) }

\* the phen array of the report
PhenLists == { << <<"W","O","N">> >> }

SeqsUpTo(S, n) == UNION { [1..k -> S] : k \in 0..n }

NoDuplicates(s) == \A i, j \in 1..Len(s) : s[i] = s[j] => i = j

\* the subjects array of an extraction is list(set(all_subjects)): no string twice
SubjectLists == { s \in SeqsUpTo(EntityNames, MaxSubjects) : NoDuplicates(s) }

Reports ==
    [ sentences : SeqsUpTo(SentenceObjects, MaxSentences),
      subjects  : SubjectLists,
      phen      : PhenLists ]

(***************************************************************************)
(* State.                                                                  *)
(***************************************************************************)
VARIABLES
    pc,        \* where analyze_responsibility stands
    source,    \* lingualint_data['_source'] of the report being analysed
    entities,  \* engine.entities: the dict, as its items in insertion order
    events,    \* engine.events
    cursor,    \* index of the next sentence of the loop over sentences
    calls,     \* the locals of each calculate_responsibility_ratio call made
    report,    \* <<>> or <<the report returned>>
    runs       \* the number of calls of analyze_responsibility so far

analyzer_vars == <<pc, source, entities, events, cursor, calls, report, runs>>

VARIABLES
    nlp_pc,               \* "idle", "sentences", "enrich", "returned", "raised"
    sentences,            \* the sentences of doc.sents iterated so far
    processed_sentences,  \* the sentence records so far
    all_subjects,         \* the subjects of the sentences so far
    all_concepts,         \* the concepts of the sentences so far
    all_relations,        \* the relations of the sentences so far
    result,               \* the _source of the result: <<>> or <<the record>>
    lookups               \* what the encyclopedia did: <<"raised">>, or one of
                          \* "page", "none", "error" per candidate looked up

nlp_vars == <<nlp_pc, sentences, processed_sentences, all_subjects, all_concepts,
              all_relations, result, lookups>>

\* one call of _extract_concepts_and_relations, the prime scan step by step
VARIABLES
    scan_pc,         \* "idle", "scan" (in _find_semantic_primes), "returned"
    scan_sent,       \* sent: the annotated sentence of the call
    scan_i,          \* i: the cursor of _find_semantic_primes, counted from 0
    scan_primes,     \* primes_found: the matches so far, (position, matched text)
    scan_concepts,   \* the concepts list returned
    scan_relations   \* the relations list returned

scan_vars == <<scan_pc, scan_sent, scan_i, scan_primes, scan_concepts, scan_relations>>

\* one run of an orchestration pipeline: extract_risk_factors or main of run.py
VARIABLES
    pipeline_pc,     \* "idle", "extracted", "json", "html", "analysis", "analysed",
                     \* "summarized", "pdf", "returned", "aborted"
    entry,           \* the function that runs: "extract_risk_factors" or "main"
    pipeline_results,         \* results of process_text: <<>> or <<the _source>>
    steps,           \* the files written, calls made and summaries given, in order
    responsibility,  \* "", "COMPLETED", "FAILED" or "SKIPPED"
    pdf_summary,     \* "", "GENERATED" or "FAILED"
    summary,         \* <<>> or <<the summary returned or printed>>
    returned         \* <<>> or <<what the function returned>>

pipeline_vars == <<pipeline_pc, entry, pipeline_results, steps, responsibility, pdf_summary,
                   summary, returned>>

vars == <<analyzer_vars, nlp_vars, scan_vars, pipeline_vars>>

EmptySource == [sentences |-> <<>>, subjects |-> <<>>, phen |-> <<>>]

\* LinguaLintEntity(name=subject)
LinguaLintEntity(name) ==
    [name |-> name, mention_count |-> 0,
     warm_vector_sum |-> ZeroVector, cold_vector_sum |-> ZeroVector]

HasEntity(ents, name) == \E k \in 1..Len(ents) : ents[k].name = name
IndexOf(ents, name) == CHOOSE k \in 1..Len(ents) : ents[k].name = name

\* for subject in subjects: if subject not in self.entities: ...
RECURSIVE InitEntities(_, _)
InitEntities(ents, subjects) ==
    IF subjects = <<>> THEN ents
    ELSE InitEntities(
            IF HasEntity(ents, Head(subjects)) THEN ents
            ELSE Append(ents, LinguaLintEntity(Head(subjects))),
            Tail(subjects))

\* a matcher that compares the strings as they are written
MentionedEntities_CaseSensitive(subjects, sentence) ==
    SelectSeq(subjects, LAMBDA entity : StrIn(entity, sentence))

\* a matcher that accepts an entity only as a whole word of the sentence
MentionedEntities_WholeWord(subjects, sentence) ==
    SelectSeq(subjects, LAMBDA entity :
        \E a \in 1..Len(sentence) : \E b \in a..Len(sentence) :
            /\ lower(SubSeq(sentence, a, b)) = lower(entity)
            /\ (a = 1 \/ sentence[a - 1] = " ")
            /\ (b = Len(sentence) \/ sentence[b + 1] = " "))

\* [entity for entity in subjects if entity.lower() in sentence.lower()]
MentionedEntities(subjects, sentence) ==
    SelectSeq(subjects, LAMBDA entity : StrIn(lower(entity), lower(sentence)))

\* an update that counts a mention twice
UpdateEntity_CountsTwice(entity, warm_vector, cold_vector) ==
    [entity EXCEPT
        !.mention_count = @ + 2,
        !.warm_vector_sum = [i \in 1..3 |-> RAdd(@[i], warm_vector[i])],
        !.cold_vector_sum = [i \in 1..3 |-> RAdd(@[i], cold_vector[i])]]

\* an update that adds the cold vector to both sums
UpdateEntity_ColdIntoWarm(entity, warm_vector, cold_vector) ==
    [entity EXCEPT
        !.mention_count = @ + 1,
        !.warm_vector_sum = [i \in 1..3 |-> RAdd(@[i], cold_vector[i])],
        !.cold_vector_sum = [i \in 1..3 |-> RAdd(@[i], cold_vector[i])]]

\* an update that keeps the vectors of the last mention instead of the sums
UpdateEntity_Overwrites(entity, warm_vector, cold_vector) ==
    [entity EXCEPT
        !.mention_count = @ + 1,
        !.warm_vector_sum = warm_vector,
        !.cold_vector_sum = cold_vector]

\* the body of `for entity_name in mentioned_entities` for one entity
UpdateEntity(entity, warm_vector, cold_vector) ==
    [entity EXCEPT
        !.mention_count = @ + 1,
        !.warm_vector_sum = [i \in 1..3 |-> RAdd(@[i], warm_vector[i])],
        !.cold_vector_sum = [i \in 1..3 |-> RAdd(@[i], cold_vector[i])]]

\* for entity_name in mentioned_entities: ...
RECURSIVE UpdateEntities(_, _, _, _)
UpdateEntities(ents, mentioned, warm_vector, cold_vector) ==
    IF mentioned = <<>> THEN ents
    ELSE LET k == IndexOf(ents, Head(mentioned))
         IN UpdateEntities(
                [ents EXCEPT ![k] = UpdateEntity(@, warm_vector, cold_vector)],
                Tail(mentioned), warm_vector, cold_vector)

\* ResponsibilityEvent(...)
ResponsibilityEvent(sentence_data, subjects, concepts) ==
    [sentence |-> sentence_data.sentence,
     entities |-> MentionedEntities(subjects, sentence_data.sentence),
     warm_vector |-> sentence_data.warm_vector,
     cold_vector |-> sentence_data.cold_vector,
     concepts |-> SelectSeq(concepts,
                    LAMBDA c : StrIn(lower(c), lower(sentence_data.sentence)))]

\* an append that drops the events no entity matched
RecordEvent_OnlyMatched(evs, event) ==
    IF event.entities = <<>> THEN evs ELSE Append(evs, event)

\* self.events.append(event)
RecordEvent(evs, event) == Append(evs, event)

(***************************************************************************)
(* The scorer.                                                             *)
(***************************************************************************)
\* the weights of the second and third component exchanged
calculate_intention_score_WeightsSwapped(entity) ==
    IF entity.mention_count = 0 THEN RInt(0)
    ELSE LET avg_warm == [i \in 1..3 |->
                RDiv(entity.warm_vector_sum[i], RInt(entity.mention_count))]
             intention_score ==
                RMul(RAdd(RAdd(RMul(avg_warm[1], Rat(4, 10)),
                               RMul(avg_warm[2], Rat(2, 10))),
                          RMul(avg_warm[3], Rat(4, 10))),
                     RInt(100))
         IN RMax(intention_score, Rat(1, 10))

\* the score without its floor of 0.1
calculate_intention_score_NoFloor(entity) ==
    IF entity.mention_count = 0 THEN RInt(0)
    ELSE LET avg_warm == [i \in 1..3 |->
                RDiv(entity.warm_vector_sum[i], RInt(entity.mention_count))]
         IN RMul(RAdd(RAdd(RMul(avg_warm[1], Rat(4, 10)),
                           RMul(avg_warm[2], Rat(4, 10))),
                      RMul(avg_warm[3], Rat(2, 10))),
                 RInt(100))

calculate_intention_score(entity) ==
    IF entity.mention_count = 0 THEN RInt(0)
    ELSE LET avg_warm == [i \in 1..3 |->
                RDiv(entity.warm_vector_sum[i], RInt(entity.mention_count))]
             intention_score ==
                RMul(RAdd(RAdd(RMul(avg_warm[1], Rat(4, 10)),
                               RMul(avg_warm[2], Rat(4, 10))),
                          RMul(avg_warm[3], Rat(2, 10))),
                     RInt(100))
         IN RMax(intention_score, Rat(1, 10))

calculate_negligence_score(entity) ==
    IF entity.mention_count = 0 THEN RInt(1)
    ELSE LET avg_cold == [i \in 1..3 |->
                RDiv(entity.cold_vector_sum[i], RInt(entity.mention_count))]
             negligence_score ==
                RMul(RAdd(RAdd(RMul(avg_cold[1], Rat(5, 10)),
                               RMul(avg_cold[2], Rat(3, 10))),
                          RMul(avg_cold[3], Rat(2, 10))),
                     RInt(100))
         IN RMax(negligence_score, Rat(1, 10))

\* the chain with inclusive thresholds
RiskLevel_Inclusive(responsibility_ratio) ==
    IF RLe(RInt(10), responsibility_ratio) THEN "Very Low"
    ELSE IF RLe(RInt(5), responsibility_ratio) THEN "Low"
    ELSE IF RLe(RInt(2), responsibility_ratio) THEN "Moderate"
    ELSE IF RLe(RInt(1), responsibility_ratio) THEN "High"
    ELSE "Very High"

\* the if/elif chain on responsibility_ratio
RiskLevel(responsibility_ratio) ==
    IF RLt(RInt(10), responsibility_ratio) THEN "Very Low"
    ELSE IF RLt(RInt(5), responsibility_ratio) THEN "Low"
    ELSE IF RLt(RInt(2), responsibility_ratio) THEN "Moderate"
    ELSE IF RLt(RInt(1), responsibility_ratio) THEN "High"
    ELSE "Very High"

\* One call: its outcome ("error": the name is unknown; "ZeroDivisionError":
\* raised by the averages of the returned dict; "ok"), its locals, and the
\* dict it returns (<<>> when it returns none).
calculate_responsibility_ratio(ents, entity_name) ==
    IF ~HasEntity(ents, entity_name)
    THEN [outcome |-> "error", entity |-> entity_name, mentions |-> 0,
          intention |-> RInt(0), negligence |-> RInt(0),
          responsibility_ratio |-> RInt(0), risk_level |-> "", returned |-> <<>>]
    ELSE
    LET entity == ents[IndexOf(ents, entity_name)]
        intention == calculate_intention_score(entity)
        negligence == calculate_negligence_score(entity)
        responsibility_ratio ==
            IF negligence[1] = 0 THEN RInt(0) ELSE RDiv(intention, negligence)
        risk_level == RiskLevel(responsibility_ratio)
        outcome ==
            IF negligence[1] = 0 \/ entity.mention_count = 0
            THEN "ZeroDivisionError" ELSE "ok"
    IN [outcome |-> outcome, entity |-> entity_name,
        mentions |-> entity.mention_count,
        intention |-> intention, negligence |-> negligence,
        responsibility_ratio |-> responsibility_ratio, risk_level |-> risk_level,
        returned |->
            IF outcome # "ok" THEN <<>>
            ELSE << [entity |-> entity_name,
                     mentions |-> entity.mention_count,
                     intention_score |-> Round3(intention),
                     negligence_score |-> Round3(negligence),
                     responsibility_ratio |-> Round3(responsibility_ratio),
                     risk_level |-> risk_level,
                     avg_warm_vector |-> [i \in 1..3 |->
                        Round3(RDiv(entity.warm_vector_sum[i], RInt(entity.mention_count)))],
                     avg_cold_vector |-> [i \in 1..3 |->
                        Round3(RDiv(entity.cold_vector_sum[i], RInt(entity.mention_count)))]] >>]

\* list.sort(key=lambda x: x["responsibility_ratio"], reverse=True): stable,
\* elements of equal key keep their order
RECURSIVE SortByRatioDescending(_)
\* an insertion that puts x ahead of the elements of equal key
InsertByRatio_BeforeEqual(sorted, x) ==
    LET n == Cardinality({k \in 1..Len(sorted) :
                RLt(x.responsibility_ratio, sorted[k].responsibility_ratio)})
    IN SubSeq(sorted, 1, n) \o <<x>> \o SubSeq(sorted, n + 1, Len(sorted))
InsertByRatio(sorted, x) ==
    LET n == Cardinality({k \in 1..Len(sorted) :
                RLe(x.responsibility_ratio, sorted[k].responsibility_ratio)})
    IN SubSeq(sorted, 1, n) \o <<x>> \o SubSeq(sorted, n + 1, Len(sorted))
SortByRatioDescending(list) ==
    IF list = <<>> THEN <<>>
    ELSE InsertByRatio(
            SortByRatioDescending(SubSeq(list, 1, Len(list) - 1)),
            list[Len(list)])

RECURSIVE Flatten(_)
Flatten(ss) == IF ss = <<>> THEN <<>> ELSE Head(ss) \o Flatten(Tail(ss))

\* the value of `sent` while no call is under way
NoSentence == [tokens |-> <<>>, ents |-> <<>>, noun_chunks |-> <<>>, start |-> 0]

(***************************************************************************)
(* Operations.                                                             *)
(***************************************************************************)
Init ==
    /\ pc = "idle"
    /\ source = EmptySource
    /\ entities = <<>>
    /\ events = <<>>
    /\ cursor = 1
    /\ calls = <<>>
    /\ report = <<>>
    /\ runs = 0
    /\ nlp_pc = "idle"
    /\ sentences = <<>>
    /\ processed_sentences = <<>>
    /\ all_subjects = <<>>
    /\ all_concepts = <<>>
    /\ all_relations = <<>>
    /\ result = <<>>
    /\ lookups = <<>>
    /\ scan_pc = "idle"
    /\ scan_sent = NoSentence
    /\ scan_i = 0
    /\ scan_primes = <<>>
    /\ scan_concepts = <<>>
    /\ scan_relations = <<>>
    /\ pipeline_pc = "idle"
    /\ entry = ""
    /\ pipeline_results = <<>>
    /\ steps = <<>>
    /\ responsibility = ""
    /\ pdf_summary = ""
    /\ summary = <<>>
    /\ returned = <<>>

\* variant: one engine serves every call
LinguaLintResponsibilityEngine_Shared(previous) == previous

\* engine = LinguaLintResponsibilityEngine(): the entities and events of the new
\* engine, whatever an earlier engine (previous) holds
LinguaLintResponsibilityEngine(previous) == [entities |-> <<>>, events |-> <<>>]

\* the body of analyze_responsibility up to the loop, for the report data
LoadReport(data) ==
    LET engine == LinguaLintResponsibilityEngine([entities |-> entities, events |-> events])
    IN /\ source' = data
       /\ entities' = InitEntities(engine.entities, data.subjects)
       /\ events' = engine.events
       /\ cursor' = 1
       /\ calls' = <<>>
       /\ report' = <<>>
       /\ pc' = "scan"

\* analyze_responsibility up to the loop over the sentences: a new engine,
\* the report loaded, one entity per subject
analyze_responsibility ==
    /\ pc = "idle"
    /\ \E data \in Reports : LoadReport(data)
    /\ runs' = 1
    /\ UNCHANGED <<nlp_vars, scan_vars, pipeline_vars>>

\* one iteration of `for sentence_data in sentences`
extract_entities_and_events ==
    /\ pc = "scan"
    /\ cursor <= Len(source.sentences)
    /\ LET sentence_data == source.sentences[cursor]
           mentioned_entities ==
               MentionedEntities(source.subjects, sentence_data.sentence)
       IN /\ entities' = UpdateEntities(entities, mentioned_entities,
                            sentence_data.warm_vector, sentence_data.cold_vector)
          /\ events' = RecordEvent(events,
                ResponsibilityEvent(sentence_data, source.subjects, source.phen))
    /\ cursor' = cursor + 1
    /\ UNCHANGED <<pc, source, calls, report, runs>>
    /\ UNCHANGED <<nlp_vars, scan_vars, pipeline_vars>>

\* generate_responsibility_report, and the return of analyze_responsibility
generate_responsibility_report ==
    /\ pc = "scan"
    /\ cursor > Len(source.sentences)
    /\ LET results == [k \in 1..Len(entities) |->
                calculate_responsibility_ratio(entities, entities[k].name)]
           failed == {k \in 1..Len(entities) : results[k].outcome = "ZeroDivisionError"}
       IN IF failed # {}
          THEN LET first == CHOOSE k \in failed : \A j \in failed : k <= j
               IN /\ calls' = SubSeq(results, 1, first)
                  /\ report' = <<>>
                  /\ pc' = "raised"
          ELSE /\ calls' = results
               /\ report' = << [total_entities |-> Len(entities),
                                total_events |-> Len(events),
                                entity_assessments |->
                                    SortByRatioDescending(
                                        Flatten([k \in 1..Len(results) |->
                                            results[k].returned]))] >>
               /\ pc' = "returned"
    /\ UNCHANGED <<source, entities, events, cursor, runs>>
    /\ UNCHANGED <<nlp_vars, scan_vars, pipeline_vars>>

Next ==
    \/ analyze_responsibility
    \/ extract_entities_and_events
    \/ generate_responsibility_report

Spec == Init /\ [][Next]_vars

(***************************************************************************)
(* Documents analysed one after another by the same process.               *)
(***************************************************************************)
SequenceReports ==
    [ sentences : SeqsUpTo({ Sent(TextFORD, <<Rat(1, 2), RInt(0), RInt(0)>>,
                                  <<Rat(1, 25), RInt(0), RInt(0)>>),
                             Sent(TextAcme, <<Rat(1, 4), RInt(0), RInt(0)>>,
                                  <<Rat(1, 25), RInt(0), RInt(0)>>),
                             Sent(TextNone, ZeroVector, ZeroVector) }, MaxSentences),
      subjects  : { s \in SeqsUpTo({Ford, Acme}, MaxSubjects) : NoDuplicates(s) },
      phen      : PhenLists ]

\* analyze_responsibility is called, for the first document or once the
\* analysis of the document before has returned or raised
analyze_responsibility_next ==
    /\ pc \in {"idle", "returned", "raised"}
    /\ runs < MaxRuns
    /\ \E data \in SequenceReports : LoadReport(data)
    /\ runs' = runs + 1
    /\ UNCHANGED <<nlp_vars, scan_vars, pipeline_vars>>

NextSequence ==
    \/ analyze_responsibility_next
    \/ extract_entities_and_events
    \/ generate_responsibility_report

SpecSequence == Init /\ [][NextSequence]_vars

(***************************************************************************)
(* Reports whose ratios lie on and next to the thresholds of the risk      *)
(* tiers: intention 50.02, 50 or 49.98 against negligence 50, and 20       *)
(* against 2.                                                              *)
(***************************************************************************)
ThresholdSentences ==
    { Sent(TextFORD, <<RInt(1), Rat(1, 4), Rat(1, 1000)>>, <<RInt(1), RInt(0), RInt(0)>>),
      Sent(TextFORD, <<RInt(1), Rat(1, 4), RInt(0)>>, <<RInt(1), RInt(0), RInt(0)>>),
      Sent(TextAcme, <<RInt(1), Rat(249, 1000), Rat(1, 1000)>>, <<RInt(1), RInt(0), RInt(0)>>),
      Sent(TextAcme, <<Rat(1, 2), RInt(0), RInt(0)>>, <<Rat(1, 25), RInt(0), RInt(0)>>) }

ThresholdReports ==
    [ sentences : SeqsUpTo(ThresholdSentences, MaxSentences),
      subjects  : { s \in SeqsUpTo({Ford, Acme}, MaxSubjects) : NoDuplicates(s) },
      phen      : PhenLists ]

\* analyze_responsibility up to the loop, for one of these reports
analyze_responsibility_thresholds ==
    /\ pc = "idle"
    /\ \E data \in ThresholdReports : LoadReport(data)
    /\ runs' = 1
    /\ UNCHANGED <<nlp_vars, scan_vars, pipeline_vars>>

NextThresholds ==
    \/ analyze_responsibility_thresholds
    \/ extract_entities_and_events
    \/ generate_responsibility_report

SpecThresholds == Init /\ [][NextThresholds]_vars

(***************************************************************************)
(* Reports read from a file, whose subjects array may list a string more   *)
(* than once.                                                              *)
(***************************************************************************)
RepeatedSubjectReports ==
    [ sentences : SeqsUpTo({ Sent(TextFordham, <<Rat(1, 10), RInt(0), RInt(0)>>,
                                  <<Rat(1, 25), RInt(0), RInt(0)>>),
                             Sent(TextFORD, <<Rat(1, 2), RInt(0), RInt(0)>>,
                                  <<Rat(1, 25), RInt(0), RInt(0)>>),
                             Sent(TextNone, ZeroVector, ZeroVector) }, MaxSentences),
      subjects  : SeqsUpTo({Ford, Acme}, MaxSubjects),
      phen      : PhenLists ]

\* analyze_responsibility up to the loop, for one of these reports
analyze_responsibility_repeated ==
    /\ pc = "idle"
    /\ \E data \in RepeatedSubjectReports : LoadReport(data)
    /\ runs' = 1
    /\ UNCHANGED <<nlp_vars, scan_vars, pipeline_vars>>

NextRepeated ==
    \/ analyze_responsibility_repeated
    \/ extract_entities_and_events
    \/ generate_responsibility_report

SpecRepeated == Init /\ [][NextRepeated]_vars

(***************************************************************************)
(* The orchestration pipelines: extract_risk_factors of server.py and main *)
(* of run.py. Both extract, write the JSON file and the HTML report, run   *)
(* the responsibility analysis on the JSON file, make the PDF and give a   *)
(* summary. Writing and rendering are input/output: each may fail.         *)
(***************************************************************************)
PipelineEntries == {"extract_risk_factors", "main"}

\* what process_text returned and json.dump wrote
PipelineReports ==
    [ sentences : SeqsUpTo({ Sent(TextFORD, <<Rat(1, 2), RInt(0), RInt(0)>>,
                                  <<Rat(1, 25), RInt(0), RInt(0)>>),
                             Sent(TextNone, ZeroVector, ZeroVector) }, MaxSentences),
      subjects  : { s \in SeqsUpTo({Ford, Acme}, MaxSubjects) : NoDuplicates(s) },
      phen      : PhenLists ]

\* an exception outside the inner try blocks: extract_risk_factors returns an
\* error text, main lets it pass to its caller
Aborted(e) ==
    IF e = "extract_risk_factors"
    THEN [pc |-> "returned", returned |-> <<"Error during extraction">>]
    ELSE [pc |-> "aborted", returned |-> <<"exception">>]

\* the word of the summary for an analysis that raised
AnalysisFailedWord(e) == IF e = "extract_risk_factors" THEN "FAILED" ELSE "SKIPPED"

\* a handler that lets the exception of the analysis pass
except_responsibility_Reraises(e) == "aborted"

\* `except Exception` around the analysis: the function goes on after the try
except_responsibility(e) == "analysed"

\* the counts of the summary
Summary_(e) ==
    [sentences |-> Len(pipeline_results[1].sentences),
     phen |-> Len(pipeline_results[1].phen),
     responsibility |-> responsibility,
     pdf |-> IF e = "extract_risk_factors" THEN pdf_summary ELSE ""]

\* the call, up to the return of process_text
pipeline_process_text ==
    /\ pipeline_pc = "idle"
    /\ \E e \in PipelineEntries : \E text \in {"blank", "fails", "ok"} :
        /\ entry' = e
        /\ text = "blank" => e = "extract_risk_factors"
        /\ IF text = "blank"
           THEN /\ pipeline_pc' = "returned"
                /\ returned' = <<"Error: Empty text content provided">>
                /\ pipeline_results' = <<>>
           ELSE IF text = "fails"
           THEN /\ pipeline_pc' = Aborted(e).pc
                /\ returned' = Aborted(e).returned
                /\ pipeline_results' = <<>>
           ELSE /\ \E data \in PipelineReports : pipeline_results' = <<data>>
                /\ pipeline_pc' = "extracted"
                /\ returned' = <<>>
    /\ UNCHANGED <<steps, responsibility, pdf_summary, summary>>
    /\ UNCHANGED <<analyzer_vars, nlp_vars, scan_vars>>

\* json.dump(pipeline_results, f)
pipeline_save_json ==
    /\ pipeline_pc = "extracted"
    /\ \E ok \in BOOLEAN :
        IF ok
        THEN /\ steps' = Append(steps, "json")
             /\ pipeline_pc' = "json"
             /\ UNCHANGED returned
        ELSE /\ pipeline_pc' = Aborted(entry).pc
             /\ returned' = Aborted(entry).returned
             /\ UNCHANGED steps
    /\ UNCHANGED <<entry, pipeline_results, responsibility, pdf_summary, summary>>
    /\ UNCHANGED <<analyzer_vars, nlp_vars, scan_vars>>

\* generate_html_report(json_file, html_file)
pipeline_generate_html_report ==
    /\ pipeline_pc = "json"
    /\ \E ok \in BOOLEAN :
        IF ok
        THEN /\ steps' = Append(steps, "html")
             /\ pipeline_pc' = "html"
             /\ UNCHANGED returned
        ELSE /\ pipeline_pc' = Aborted(entry).pc
             /\ returned' = Aborted(entry).returned
             /\ UNCHANGED steps
    /\ UNCHANGED <<entry, pipeline_results, responsibility, pdf_summary, summary>>
    /\ UNCHANGED <<analyzer_vars, nlp_vars, scan_vars>>

\* analyze_responsibility(json_file) is called inside the try block: the file
\* holds what json.dump wrote
pipeline_analyze_responsibility ==
    /\ pipeline_pc = "html"
    /\ LoadReport(pipeline_results[1])
    /\ runs' = 1
    /\ steps' = Append(steps, "analysis")
    /\ pipeline_pc' = "analysis"
    /\ UNCHANGED <<entry, pipeline_results, responsibility, pdf_summary, summary, returned>>
    /\ UNCHANGED <<nlp_vars, scan_vars>>

\* analyze_responsibility returned: the report is saved and rendered, which
\* raises ImportError when the plotting libraries are missing
pipeline_responsibility_reports ==
    /\ pipeline_pc = "analysis"
    /\ pc = "returned"
    /\ \E outcome \in {"ok", "ImportError", "Exception"} :
        IF outcome = "ok"
        THEN /\ steps' = steps \o <<"responsibility_json", "responsibility_reports">>
             /\ responsibility' = "COMPLETED"
             /\ pipeline_pc' = "analysed"
        ELSE /\ steps' = IF outcome = "ImportError"
                         THEN Append(steps, "responsibility_json") ELSE steps
             /\ responsibility' = AnalysisFailedWord(entry)
             /\ pipeline_pc' = except_responsibility(entry)
    /\ UNCHANGED <<entry, pipeline_results, pdf_summary, summary, returned>>
    /\ UNCHANGED <<analyzer_vars, nlp_vars, scan_vars>>

\* analyze_responsibility raised: the except block
pipeline_responsibility_raised ==
    /\ pipeline_pc = "analysis"
    /\ pc = "raised"
    /\ responsibility' = AnalysisFailedWord(entry)
    /\ pipeline_pc' = except_responsibility(entry)
    /\ UNCHANGED <<entry, pipeline_results, steps, pdf_summary, summary, returned>>
    /\ UNCHANGED <<analyzer_vars, nlp_vars, scan_vars>>

\* main prints its summary before the PDF step
pipeline_print_summary ==
    /\ pipeline_pc = "analysed"
    /\ entry = "main"
    /\ summary' = << Summary_(entry) >>
    /\ steps' = Append(steps, "summary")
    /\ pipeline_pc' = "summarized"
    /\ UNCHANGED <<entry, pipeline_results, responsibility, pdf_summary, returned>>
    /\ UNCHANGED <<analyzer_vars, nlp_vars, scan_vars>>

\* generate_comprehensive_pdf inside its own try block: a file, None or an
\* exception
pipeline_generate_comprehensive_pdf ==
    /\ pipeline_pc = IF entry = "main" THEN "summarized" ELSE "analysed"
    /\ \E outcome \in {"file", "none", "raises"} :
        pdf_summary' = IF outcome = "file" THEN "GENERATED" ELSE "FAILED"
    /\ steps' = Append(steps, "pdf")
    /\ pipeline_pc' = "pdf"
    /\ UNCHANGED <<entry, pipeline_results, responsibility, summary, returned>>
    /\ UNCHANGED <<analyzer_vars, nlp_vars, scan_vars>>

\* extract_risk_factors returns its summary, main returns 0
pipeline_return ==
    /\ pipeline_pc = "pdf"
    /\ IF entry = "extract_risk_factors"
       THEN /\ summary' = << [Summary_(entry) EXCEPT !.pdf = pdf_summary] >>
            /\ steps' = Append(steps, "summary")
            /\ returned' = <<"summary">>
       ELSE /\ returned' = <<"0">>
            /\ UNCHANGED <<summary, steps>>
    /\ pipeline_pc' = "returned"
    /\ UNCHANGED <<entry, pipeline_results, responsibility, pdf_summary>>
    /\ UNCHANGED <<analyzer_vars, nlp_vars, scan_vars>>

NextPipeline ==
    \/ pipeline_process_text
    \/ pipeline_save_json
    \/ pipeline_generate_html_report
    \/ pipeline_analyze_responsibility
    \/ extract_entities_and_events
    \/ generate_responsibility_report
    \/ pipeline_responsibility_reports
    \/ pipeline_responsibility_raised
    \/ pipeline_print_summary
    \/ pipeline_generate_comprehensive_pdf
    \/ pipeline_return

\* every step of the pipeline but the call of generate_responsibility_report
PipelineStatement ==
    \/ pipeline_process_text
    \/ pipeline_save_json
    \/ pipeline_generate_html_report
    \/ pipeline_analyze_responsibility
    \/ extract_entities_and_events
    \/ pipeline_responsibility_reports
    \/ pipeline_responsibility_raised
    \/ pipeline_print_summary
    \/ pipeline_generate_comprehensive_pdf
    \/ pipeline_return

\* generate_responsibility_report is called once the loop over the sentences
\* is over, and it returns or raises
ReportStatement ==
    /\ pc = "scan"
    /\ cursor > Len(source.sentences)
    /\ pc' \in {"returned", "raised"}

\* the functions run in one thread, statement after statement: a statement
\* that is reached is executed
SpecPipeline ==
    Init /\ [][NextPipeline]_vars /\ WF_vars(PipelineStatement) /\ WF_pc(ReportStatement)

(***************************************************************************)
(* The Linguistic Feature Extractor: the sentence records of process_text. *)
(* The annotator (spaCy) supplies each sentence as its tokens.             *)
(***************************************************************************)
Token(text, pos) == [text |-> text, pos_ |-> pos]

Tokens ==
    { Token(<<"g","r","o","w","t","h">>, "NOUN"),
      Token(<<"R","i","s","k">>, "NOUN"),
      Token(<<"m","a","y">>, "AUX"),
      Token(<<".">>, "PUNCT") }

\* the sentences of doc.sents: non-empty token spans
Sentences == SeqsUpTo(Tokens, MaxTokens) \ {<<>>}

\* token.is_alpha
is_alpha(token) ==
    /\ token.text # <<>>
    /\ \A k \in 1..Len(token.text) :
        \E n \in 1..Len(UpperChars) :
            token.text[k] = UpperChars[n] \/ token.text[k] = LowerChars[n]

\* str.strip() for the space character
RECURSIVE strip(_)
strip(s) ==
    IF s = <<>> THEN s
    ELSE IF Head(s) = " " THEN strip(Tail(s))
    ELSE IF s[Len(s)] = " " THEN strip(SubSeq(s, 1, Len(s) - 1))
    ELSE s

\* sent.text: the token texts, one space between two tokens
RECURSIVE SentText(_)
SentText(sent) ==
    IF sent = <<>> THEN <<>>
    ELSE IF Len(sent) = 1 THEN sent[1].text
    ELSE sent[1].text \o <<" ">> \o SentText(Tail(sent))

positive_words ==
    { <<"g","o","o","d">>,
      <<"s","t","r","o","n","g">>,
      <<"g","r","o","w","t","h">>,
      <<"i","n","c","r","e","a","s","e">>,
      <<"p","o","s","i","t","i","v","e">>,
      <<"b","e","n","e","f","i","t">>,
      <<"a","d","v","a","n","t","a","g","e">> }
negative_words ==
    { <<"r","i","s","k">>,
      <<"a","d","v","e","r","s","e">>,
      <<"d","e","c","r","e","a","s","e">>,
      <<"d","e","c","l","i","n","e">>,
      <<"n","e","g","a","t","i","v","e">>,
      <<"l","o","s","s">>,
      <<"t","h","r","e","a","t">>,
      <<"d","a","n","g","e","r">> }
engagement_words ==
    { <<"w","i","l","l">>,
      <<"c","a","n">>,
      <<"m","a","y">>,
      <<"c","o","u","l","d">> }
risk_words ==
    { <<"r","i","s","k">>,
      <<"m","a","y">>,
      <<"c","o","u","l","d">>,
      <<"m","i","g","h","t">> }

\* variant: a keyword that occurs twice is counted once
CountIn_DistinctWords(words, S) == Cardinality({words[k] : k \in 1..Len(words)} \cap S)

\* sum(1 for word in words if word in S), len([w for w in words if w in S])
CountIn(words, S) == Cardinality({k \in 1..Len(words) : words[k] \in S})

\* Python max(a, b) on ints
Max(a, b) == IF a < b THEN b ELSE a

\* a vector whose third component is the count over the opposite count
_calculate_sentiment_vector_OverOpposite(sent, vector_type) ==
    LET alpha == SelectSeq(sent, is_alpha)
        words == [k \in 1..Len(alpha) |-> lower(alpha[k].text)]
        pos_count == CountIn(words, positive_words)
        neg_count == CountIn(words, negative_words)
        total_words == Len(words)
    IN IF vector_type = "warm"
       THEN << <<pos_count, Max(total_words, 1)>>,
               <<CountIn(words, engagement_words), Max(total_words, 1)>>,
               <<pos_count, Max(neg_count, 1)>> >>
       ELSE << <<neg_count, Max(total_words, 1)>>,
               <<CountIn(words, risk_words), Max(total_words, 1)>>,
               <<neg_count, Max(pos_count, 1)>> >>

_calculate_sentiment_vector(sent, vector_type) ==
    LET alpha == SelectSeq(sent, is_alpha)
        words == [k \in 1..Len(alpha) |-> lower(alpha[k].text)]
        pos_count == CountIn(words, positive_words)
        neg_count == CountIn(words, negative_words)
        total_words == Len(words)
    IN IF vector_type = "warm"
       THEN << Rat(pos_count, Max(total_words, 1)),
               Rat(CountIn(words, engagement_words), Max(total_words, 1)),
               Rat(pos_count, Max(pos_count + neg_count, 1)) >>
       ELSE << Rat(neg_count, Max(total_words, 1)),
               Rat(CountIn(words, risk_words), Max(total_words, 1)),
               Rat(neg_count, Max(pos_count + neg_count, 1)) >>

\* sent_data['sentence_obj'] of _process_sentence
sentence_obj(sent) ==
    [sentence |-> strip(SentText(sent)),
     warm_vector |-> _calculate_sentiment_vector(sent, "warm"),
     cold_vector |-> _calculate_sentiment_vector(sent, "cold")]

(***************************************************************************)
(* The Lexical Prime Matcher and the Sentence Feature Extractor.           *)
(* An annotated sentence is [tokens, ents, noun_chunks, start]: the tokens *)
(* (text, pos_), the named-entity spans (text, label_), the texts of the   *)
(* noun chunks, and the document index of its first token (token.i of      *)
(* token number k, counted from 0, is start + k).                          *)
(***************************************************************************)
\* self.prime_singles
prime_singles ==
    { <<"i">>, <<"y","o","u">>, <<"s","o","m","e","o","n","e">>,
      <<"s","o","m","e","t","h","i","n","g">>, <<"p","e","o","p","l","e">>, <<"b","o","d","y">>,
      <<"k","i","n","d">>, <<"p","a","r","t">>, <<"t","h","i","s">>, <<"o","t","h","e","r">>,
      <<"e","l","s","e">>, <<"o","n","e">>, <<"t","w","o">>, <<"s","o","m","e">>, <<"a","l","l">>,
      <<"m","u","c","h">>, <<"m","a","n","y">>, <<"l","i","t","t","l","e">>, <<"f","e","w">>,
      <<"g","o","o","d">>, <<"b","a","d">>, <<"b","i","g">>, <<"s","m","a","l","l">>,
      <<"t","h","i","n","k">>, <<"k","n","o","w">>, <<"w","a","n","t">>, <<"f","e","e","l">>,
      <<"s","e","e">>, <<"h","e","a","r">>, <<"s","a","y">>, <<"w","o","r","d","s">>,
      <<"t","r","u","e">>, <<"d","o">>, <<"h","a","p","p","e","n">>, <<"m","o","v","e">>,
      <<"b","e">>, <<"h","a","v","e">>, <<"l","i","v","e">>, <<"d","i","e">>, <<"w","h","e","n">>,
      <<"n","o","w">>, <<"b","e","f","o","r","e">>, <<"a","f","t","e","r">>,
      <<"m","o","m","e","n","t">>, <<"w","h","e","r","e">>, <<"h","e","r","e">>,
      <<"a","b","o","v","e">>, <<"b","e","l","o","w">>, <<"f","a","r">>, <<"n","e","a","r">>,
      <<"s","i","d","e">>, <<"i","n","s","i","d","e">>, <<"t","o","u","c","h">>, <<"n","o","t">>,
      <<"m","a","y","b","e">>, <<"c","a","n">>, <<"b","e","c","a","u","s","e">>, <<"i","f">>,
      <<"v","e","r","y">>, <<"m","o","r","e">>, <<"l","i","k","e">> }

\* the keys of self.prime_phrases
prime_phrases ==
    { <<"t","h","e"," ","s","a","m","e">>, <<"d","o","n","'","t"," ","w","a","n","t">>,
      <<"t","h","e","r","e"," ","i","s">>,
      <<"b","e"," ","s","o","m","e","o","n","e","/","s","o","m","e","t","h","i","n","g">>,
      <<"a"," ","l","o","n","g"," ","t","i","m","e">>,
      <<"a"," ","s","h","o","r","t"," ","t","i","m","e">>,
      <<"f","o","r"," ","s","o","m","e"," ","t","i","m","e">> }

\* sep.join(words)
RECURSIVE Join(_, _)
Join(words, sep) ==
    IF words = <<>> THEN <<>>
    ELSE IF Len(words) = 1 THEN words[1]
    ELSE words[1] \o sep \o Join(Tail(words), sep)

\* str.split(): the maximal runs of characters other than the space
RECURSIVE split(_)
split(s) ==
    IF s = <<>> THEN <<>>
    ELSE IF Head(s) = " " THEN split(Tail(s))
    ELSE LET ends == {k \in 1..Len(s) : s[k] = " "}
             n == IF ends = {} THEN Len(s) + 1
                  ELSE CHOOSE k \in ends : \A j \in ends : k <= j
         IN <<SubSeq(s, 1, n - 1)>> \o split(SubSeq(s, n, Len(s)))

\* c.isupper() for one character
isupper(c) == c \in DOMAIN UpperToLower

\* ' '.join(token.text.lower() for token in tokens[i:i+phrase_len]), i from 0
Phrase(tokens, i, phrase_len) ==
    Join([k \in 1..phrase_len |-> lower(tokens[i + k].text)], <<" ">>)

\* variant: phrases of at most 2 tokens are tried
PhraseLengths_UpToTwo(tokens, i) ==
    LET m == IF Len(tokens) - i < 2 THEN Len(tokens) - i ELSE 2
    IN 1..m

\* the lengths tried at position i: range(min(4, len(tokens) - i), 0, -1)
PhraseLengths(tokens, i) ==
    LET m == IF Len(tokens) - i < 4 THEN Len(tokens) - i ELSE 4
    IN 1..m

\* variant: the cursor stays where it is when the token is no prime
PrimeScanStep_StallsOnMiss(tokens, i, primes_found) ==
    LET hits == {n \in PhraseLengths(tokens, i) : Phrase(tokens, i, n) \in prime_phrases}
    IN IF hits # {}
       THEN LET phrase_len == CHOOSE n \in hits : \A m \in hits : m <= n
            IN [i |-> i + phrase_len,
                primes_found |-> Append(primes_found, <<i, Phrase(tokens, i, phrase_len)>>)]
       ELSE IF lower(tokens[i + 1].text) \in prime_singles
            THEN [i |-> i + 1,
                  primes_found |-> Append(primes_found, <<i, lower(tokens[i + 1].text)>>)]
            ELSE [i |-> i, primes_found |-> primes_found]

\* variant: the cursor advances by one token after a multi-word match
PrimeScanStep_NoSkip(tokens, i, primes_found) ==
    LET hits == {n \in PhraseLengths(tokens, i) : Phrase(tokens, i, n) \in prime_phrases}
    IN IF hits # {}
       THEN LET phrase_len == CHOOSE n \in hits : \A m \in hits : m <= n
            IN [i |-> i + 1,
                primes_found |-> Append(primes_found, <<i, Phrase(tokens, i, phrase_len)>>)]
       ELSE [i |-> i + 1,
             primes_found |->
                IF lower(tokens[i + 1].text) \in prime_singles
                THEN Append(primes_found, <<i, lower(tokens[i + 1].text)>>)
                ELSE primes_found]

\* One iteration of the while loop of _find_semantic_primes at cursor i
\* (counted from 0): the cursor and the list after it.
PrimeScanStep(tokens, i, primes_found) ==
    LET hits == {n \in PhraseLengths(tokens, i) : Phrase(tokens, i, n) \in prime_phrases}
    IN IF hits # {}
       THEN LET phrase_len == CHOOSE n \in hits : \A m \in hits : m <= n
            IN [i |-> i + phrase_len,
                primes_found |-> Append(primes_found, <<i, Phrase(tokens, i, phrase_len)>>)]
       ELSE [i |-> i + 1,
             primes_found |->
                IF lower(tokens[i + 1].text) \in prime_singles
                THEN Append(primes_found, <<i, lower(tokens[i + 1].text)>>)
                ELSE primes_found]

\* while i < len(tokens): ...
RECURSIVE PrimeScanFrom(_, _, _)
PrimeScanFrom(tokens, i, primes_found) ==
    IF i < Len(tokens)
    THEN LET next == PrimeScanStep(tokens, i, primes_found)
         IN PrimeScanFrom(tokens, next.i, next.primes_found)
    ELSE primes_found

_find_semantic_primes(tokens) == PrimeScanFrom(tokens, 0, <<>>)

\* _extract_concept_window: window_size = 3 on each side of prime_pos
_extract_concept_window(tokens, prime_pos, prime_text) ==
    LET start == IF prime_pos - 3 < 0 THEN 0 ELSE prime_pos - 3
        end == IF Len(tokens) < prime_pos + 3 + 1 THEN Len(tokens) ELSE prime_pos + 3 + 1
        kept == SelectSeq([k \in 1..(end - start) |-> start + k - 1],
                    LAMBDA i : i # prime_pos /\ tokens[i + 1].pos_ \notin {"PUNCT", "SPACE"})
    IN strip(Join([k \in 1..Len(kept) |-> tokens[kept[k] + 1].text], <<" ">>))

relational_primes ==
    { <<"b","e","c","a","u","s","e">>, <<"i","f">>, <<"w","h","e","n">>, <<"w","h","e","r","e">>,
      <<"d","o">>, <<"h","a","p","p","e","n">>, <<"m","o","v","e">>, <<"s","a","y">>,
      <<"t","h","i","n","k">>, <<"f","e","e","l">>, <<"s","e","e">>, <<"h","e","a","r">>,
      <<"l","i","k","e">>, <<"c","a","n">> }

\* variant: the classification is inverted
_is_relational_prime_Inverted(prime_text) == prime_text \notin relational_primes

_is_relational_prime(prime_text) == prime_text \in relational_primes

\* _get_phrase_context(token, sent) for the token of document index token_i
_get_phrase_context(token_i, tokens) ==
    LET start_idx == IF token_i - 2 < 0 THEN 0 ELSE token_i - 2
        end_idx == IF Len(tokens) < token_i + 3 THEN Len(tokens) ELSE token_i + 3
        kept == SelectSeq([k \in 1..(IF end_idx > start_idx THEN end_idx - start_idx ELSE 0)
                            |-> start_idx + k - 1],
                    LAMBDA i : /\ tokens[i + 1].pos_ \notin {"PUNCT", "SPACE", "DET"}
                               /\ Len(tokens[i + 1].text) > 1)
    IN strip(Join([k \in 1..Len(kept) |-> tokens[kept[k] + 1].text], <<" ">>))

\* the windows of the prime matches, as (is relational, window) in match order
PrimeWindows(tokens, prime_positions) ==
    [k \in 1..Len(prime_positions) |->
        [relational |-> _is_relational_prime(prime_positions[k][2]),
         window |-> _extract_concept_window(tokens, prime_positions[k][1],
                                            prime_positions[k][2])]]

\* for chunk in sent.noun_chunks: ... concepts.append(chunk_text)
RECURSIVE AddNounChunks(_, _)
AddNounChunks(concepts, chunks) ==
    IF chunks = <<>> THEN concepts
    ELSE LET chunk_text == strip(Head(chunks))
         IN AddNounChunks(
                IF /\ Len(split(chunk_text)) > 1
                   /\ ~isupper(chunk_text[1])
                   /\ ~(\E k \in 1..Len(concepts) : concepts[k] = chunk_text)
                   /\ Len(chunk_text) > 3
                THEN Append(concepts, chunk_text) ELSE concepts,
                Tail(chunks))

\* for token in sent: if token.pos_ in ['VERB', 'ADJ'] ...: the phrases appended
RECURSIVE VerbPhrases(_, _, _)
VerbPhrases(tokens, start, k) ==
    IF k > Len(tokens) THEN <<>>
    ELSE LET token == tokens[k]
             phrase == _get_phrase_context(start + k - 1, tokens)
         IN (IF /\ token.pos_ \in {"VERB", "ADJ"}
                /\ ~isupper(token.text[1])
                /\ phrase # <<>>
                /\ Len(phrase) > 3
                /\ ~isupper(phrase[1])
             THEN <<phrase>> ELSE <<>>)
            \o VerbPhrases(tokens, start, k + 1)

\* the rest of _extract_concepts_and_relations once the primes are found
ConceptsAndRelations(sent, prime_positions) ==
    LET windows == PrimeWindows(sent.tokens, prime_positions)
        from_primes == SelectSeq(windows, LAMBDA w : ~w.relational)
        concepts == [k \in 1..Len(from_primes) |-> from_primes[k].window]
        rels == SelectSeq(windows, LAMBDA w : w.relational)
    IN [concepts |-> AddNounChunks(concepts, sent.noun_chunks)
                        \o VerbPhrases(sent.tokens, sent.start, 1),
        relations |-> [k \in 1..Len(rels) |-> rels[k].window]]

_extract_concepts_and_relations(sent) ==
    ConceptsAndRelations(sent, _find_semantic_primes(sent.tokens))

\* variant: the list as it is, repetitions included
ListOfSet_KeepAll(xs) == xs

\* list(set(xs)): every element once; the order of a Python set is left open
\* by the language, the model lists the elements in order of first occurrence
RECURSIVE ListOfSet(_)
ListOfSet(xs) ==
    IF xs = <<>> THEN <<>>
    ELSE LET init == ListOfSet(SubSeq(xs, 1, Len(xs) - 1))
             x == xs[Len(xs)]
         IN IF \E k \in 1..Len(init) : init[k] = x THEN init ELSE Append(init, x)

subject_labels == {"PERSON", "ORG", "GPE", "PRODUCT", "EVENT", "LAW", "MONEY"}

\* for chunk in sent.noun_chunks: ... subjects.append(chunk.text)
RECURSIVE AddCapitalizedChunks(_, _)
AddCapitalizedChunks(subjects, chunks) ==
    IF chunks = <<>> THEN subjects
    ELSE LET chunk == Head(chunks)
         IN AddCapitalizedChunks(
                IF /\ isupper(chunk[1])
                   /\ Len(split(chunk)) <= 3
                   /\ ~(\E k \in 1..Len(subjects) : subjects[k] = chunk)
                THEN Append(subjects, chunk) ELSE subjects,
                Tail(chunks))

_extract_subjects(sent) ==
    LET named == SelectSeq(sent.ents, LAMBDA ent : ent.label_ \in subject_labels)
        proper == SelectSeq(sent.tokens, LAMBDA token :
                    /\ token.pos_ = "PROPN"
                    /\ isupper(token.text[1])
                    /\ Len(token.text) > 2
                    /\ ~(\E k \in 1..Len(sent.ents) : sent.ents[k].text = token.text))
        subjects == [k \in 1..Len(named) |-> named[k].text]
                        \o [k \in 1..Len(proper) |-> proper[k].text]
    IN ListOfSet(AddCapitalizedChunks(subjects, sent.noun_chunks))


(***************************************************************************)
(* One call of _extract_concepts_and_relations on a sentence of the        *)
(* annotator, the while loop of _find_semantic_primes one iteration at a   *)
(* time.                                                                   *)
(***************************************************************************)
ScanTokens ==
    { Token(<<"f","o","r">>, "ADP"),
      Token(<<"S","o","m","e">>, "DET"),
      Token(<<"t","i","m","e">>, "NOUN"),
      Token(<<"b","e","c","a","u","s","e">>, "SCONJ"),
      Token(<<"g","o","o","d">>, "ADJ"),
      Token(<<".">>, "PUNCT") }

\* a sentence as the annotator delivers it
Annotated(tokens, ents, noun_chunks, start) ==
    [tokens |-> tokens, ents |-> ents, noun_chunks |-> noun_chunks, start |-> start]

ScanSentences ==
    { Annotated(tokens, <<>>, <<>>, 0) : tokens \in SeqsUpTo(ScanTokens, MaxScanTokens) \ {<<>>} }

\* _extract_concepts_and_relations is called: tokens = [token for token in sent],
\* and _find_semantic_primes starts with primes_found = [], i = 0
_extract_concepts_and_relations_call ==
    /\ scan_pc = "idle"
    /\ \E s \in ScanSentences : scan_sent' = s
    /\ scan_i' = 0
    /\ scan_primes' = <<>>
    /\ scan_pc' = "scan"
    /\ UNCHANGED <<scan_concepts, scan_relations>>
    /\ UNCHANGED <<analyzer_vars, nlp_vars, pipeline_vars>>

\* one iteration of `while i < len(tokens)`
_find_semantic_primes_iteration ==
    /\ scan_pc = "scan"
    /\ scan_i < Len(scan_sent.tokens)
    /\ LET next == PrimeScanStep(scan_sent.tokens, scan_i, scan_primes)
       IN /\ scan_i' = next.i
          /\ scan_primes' = next.primes_found
    /\ UNCHANGED <<scan_pc, scan_sent, scan_concepts, scan_relations>>
    /\ UNCHANGED <<analyzer_vars, nlp_vars, pipeline_vars>>

\* the loop is left, the matches are returned and classified, the noun chunks
\* and the verb and adjective phrases are added
_extract_concepts_and_relations_return ==
    /\ scan_pc = "scan"
    /\ ~(scan_i < Len(scan_sent.tokens))
    /\ LET out == ConceptsAndRelations(scan_sent, scan_primes)
       IN /\ scan_concepts' = out.concepts
          /\ scan_relations' = out.relations
    /\ scan_pc' = "returned"
    /\ UNCHANGED <<scan_sent, scan_i, scan_primes>>
    /\ UNCHANGED <<analyzer_vars, nlp_vars, pipeline_vars>>

NextScan ==
    \/ _extract_concepts_and_relations_call
    \/ _find_semantic_primes_iteration
    \/ _extract_concepts_and_relations_return

SpecScan == Init /\ [][NextScan]_vars

\* the while loop of a call under way goes on: an iteration that can be made
\* is made
SpecScanLoop == Init /\ [][NextScan]_vars /\ WF_vars(_find_semantic_primes_iteration)

(***************************************************************************)
(* The Document Extractor: process_text and the enrichment of its result.  *)
(***************************************************************************)
\* variant: the relations are left out
_extract_phenomena_NoRelations(subjects, concepts, relations) ==
    LET phenomena == subjects \o concepts
        kept == SelectSeq(phenomena, LAMBDA p : p # <<>> /\ Len(strip(p)) > 2)
    IN ListOfSet([k \in 1..Len(kept) |-> strip(kept[k])])

\* _extract_phenomena
_extract_phenomena(subjects, concepts, relations) ==
    LET phenomena == subjects \o concepts \o relations
        kept == SelectSeq(phenomena, LAMBDA p : p # <<>> /\ Len(strip(p)) > 2)
    IN ListOfSet([k \in 1..Len(kept) |-> strip(kept[k])])

wiki_priority_terms ==
    { <<"c","o","m","p","a","n","y">>, <<"c","o","r","p","o","r","a","t","i","o","n">>,
      <<"i","n","c">>, <<"l","l","c">>,
      <<"p","a","n","d","e","m","i","c">>, <<"c","o","v","i","d">>,
      <<"c","r","i","s","i","s">>, <<"t","e","c","h","n","o","l","o","g","y">>,
      <<"s","y","s","t","e","m">>, <<"m","a","r","k","e","t">>,
      <<"i","n","d","u","s","t","r","y">>, <<"r","e","g","u","l","a","t","i","o","n">>,
      <<"g","o","v","e","r","n","m","e","n","t">>, <<"e","c","o","n","o","m","i","c">>,
      <<"f","i","n","a","n","c","i","a","l">>, <<"b","u","s","i","n","e","s","s">>,
      <<"o","p","e","r","a","t","i","o","n","s">>, <<"r","e","v","e","n","u","e">>,
      <<"d","e","b","t">> }

\* the condition of _extract_wiki_candidates on an entity that is not empty
IsWikiCandidate(entity) ==
    \/ isupper(entity[1])
    \/ \E term \in wiki_priority_terms : StrIn(term, lower(entity))
    \/ Len(split(entity)) >= 2

\* entity[0] of _extract_wiki_candidates raises IndexError on an empty string
WikiCandidatesRaise(entity_list) ==
    \E k \in 1..Len(entity_list) : entity_list[k] = <<>>

\* the sets of d numbers out of 1..m
RECURSIVE Combinations(_, _)
Combinations(m, d) ==
    IF d = 0 THEN {{}}
    ELSE IF m < d THEN {}
    ELSE Combinations(m - 1, d) \cup {c \cup {m} : c \in Combinations(m - 1, d - 1)}

\* xs without the elements whose numbers are in D
Without(xs, D) ==
    LET keep == SelectSeq([k \in 1..Len(xs) |-> k], LAMBDA k : k \notin D)
    IN [k \in 1..Len(keep) |-> xs[keep[k]]]

\* the first 20 elements of the candidate set
WikiLimit == 20

\* variant: nothing is cut off
Truncations_None(xs, n) == {xs}

\* list(set(candidates))[:20]: the set's iteration order decides which elements
\* are cut off, so every choice of 20 survivors is a possible outcome
Truncations(xs, n) ==
    IF Len(xs) <= n THEN {xs}
    ELSE {Without(xs, D) : D \in Combinations(Len(xs), Len(xs) - n)}

\* the lists _extract_wiki_candidates can return for entities without ""
_extract_wiki_candidates(entity_list) ==
    Truncations(ListOfSet(SelectSeq(entity_list, IsWikiCandidate)), WikiLimit)

\* concept.replace(' ', '_')
replace(s, old, new) == [k \in 1..Len(s) |-> IF s[k] = old THEN new ELSE s[k]]

\* f"https://en.wikipedia.org/wiki/{title.replace(' ', '_')}"
wiki_url(title) ==
    <<"h","t","t","p","s",":","/","/","e","n",".","w","i","k","i","p","e","d","i","a",".","o","r","g","/","w","i","k","i","/">>
        \o replace(title, " ", "_")

\* wikipedia.summary(page_title, sentences=2) of a page that exists
Summary == <<"S","u","m","m","a","r","y",".">>

\* variant: a failed lookup is recorded with the summary of a page
WikiEntry_AlwaysSummary(concept, outcome) ==
    [wiki_search_content |-> concept,
     wiki_url |-> wiki_url(concept),
     wiki_summary |-> Summary]

\* the entry integrate_wikipedia_sync appends for a candidate: the search finds
\* the page ("page"), finds nothing ("none") or the lookup raises ("error")
WikiEntry(concept, outcome) ==
    [wiki_search_content |-> concept,
     wiki_url |-> wiki_url(concept),
     wiki_summary |-> IF outcome = "page" THEN Summary ELSE <<>>]

\* for concept in wiki_candidates[:10]
LookupLimit == 10

\* what the encyclopedia does on n lookups in a row: at most MaxLookupFailures
\* of them do not deliver a page
LookupOutcomes(n) ==
    UNION { UNION { { [k \in 1..n |-> IF k \in F THEN kind[k] ELSE "page"] :
                        kind \in [F -> {"none", "error"}] } :
                    F \in Combinations(n, d) } :
            d \in 0..(IF n < MaxLookupFailures THEN n ELSE MaxLookupFailures) }

\* the annotator's sentence for a text of white space: one SPACE token
WhitespaceSentence == Annotated(<< Token(<<" ">>, "SPACE") >>, <<>>, <<>>, 0)

Span(text, label) == [text |-> text, label_ |-> label]

\* "Apple reported growth."
AppleSentence ==
    Annotated(<< Token(<<"A","p","p","l","e">>, "PROPN"),
                 Token(<<"r","e","p","o","r","t","e","d">>, "VERB"),
                 Token(<<"g","r","o","w","t","h">>, "NOUN"),
                 Token(<<".">>, "PUNCT") >>,
              << Span(<<"A","p","p","l","e">>, "ORG") >>,
              << <<"A","p","p","l","e">>, <<"g","r","o","w","t","h">> >>, 0)

\* "EU may decline."
EUSentence ==
    Annotated(<< Token(<<"E","U">>, "PROPN"),
                 Token(<<"m","a","y">>, "AUX"),
                 Token(<<"d","e","c","l","i","n","e">>, "VERB"),
                 Token(<<".">>, "PUNCT") >>,
              << Span(<<"E","U">>, "ORG") >>,
              << <<"E","U">> >>, 0)

\* "the market is good."
MarketSentence ==
    Annotated(<< Token(<<"t","h","e">>, "DET"),
                 Token(<<"m","a","r","k","e","t">>, "NOUN"),
                 Token(<<"i","s">>, "AUX"),
                 Token(<<"g","o","o","d">>, "ADJ"),
                 Token(<<".">>, "PUNCT") >>,
              <<>>,
              << <<"t","h","e"," ","m","a","r","k","e","t">> >>, 0)

\* "because growth."
BecauseSentence ==
    Annotated(<< Token(<<"b","e","c","a","u","s","e">>, "SCONJ"),
                 Token(<<"g","r","o","w","t","h">>, "NOUN"),
                 Token(<<".">>, "PUNCT") >>,
              <<>>,
              << <<"g","r","o","w","t","h">> >>, 0)

\* "Good."
GoodSentence ==
    Annotated(<< Token(<<"G","o","o","d">>, "ADJ"),
                 Token(<<".">>, "PUNCT") >>,
              <<>>, <<>>, 0)

\* "Apple Inc reported growth.": the organization is a span of two tokens
AppleIncSentence ==
    Annotated(<< Token(<<"A","p","p","l","e">>, "PROPN"),
                 Token(<<"I","n","c">>, "PROPN"),
                 Token(<<"r","e","p","o","r","t","e","d">>, "VERB"),
                 Token(<<"g","r","o","w","t","h">>, "NOUN"),
                 Token(<<".">>, "PUNCT") >>,
              << Span(<<"A","p","p","l","e"," ","I","n","c">>, "ORG") >>,
              << <<"A","p","p","l","e"," ","I","n","c">>, <<"g","r","o","w","t","h">> >>, 0)

\* "the Pacific may decline.": the entity is a location, not on the list of
\* _extract_subjects
PacificSentence ==
    Annotated(<< Token(<<"t","h","e">>, "DET"),
                 Token(<<"P","a","c","i","f","i","c">>, "PROPN"),
                 Token(<<"m","a","y">>, "AUX"),
                 Token(<<"d","e","c","l","i","n","e">>, "VERB"),
                 Token(<<".">>, "PUNCT") >>,
              << Span(<<"P","a","c","i","f","i","c">>, "LOC") >>,
              << <<"t","h","e"," ","P","a","c","i","f","i","c">> >>, 0)

\* a sentence that names one organization more than the candidate list holds
ManyNames == [k \in 1..(WikiLimit + 1) |-> <<"N", LowerChars[k], LowerChars[k]>>]

ManyEntitiesSentence ==
    Annotated([k \in 1..Len(ManyNames) |-> Token(ManyNames[k], "PROPN")],
              [k \in 1..Len(ManyNames) |-> Span(ManyNames[k], "ORG")],
              ManyNames, 0)

ExampleSentences ==
    { WhitespaceSentence, AppleSentence, EUSentence, MarketSentence,
      BecauseSentence, GoodSentence, AppleIncSentence, PacificSentence }

\* the sentences a document can begin with: every token sequence of Sentences,
\* the examples, and the sentence of many organizations
FirstSentences ==
    { Annotated(tokens, <<>>, <<>>, 0) : tokens \in Sentences }
        \cup ExampleSentences \cup {ManyEntitiesSentence}

\* the sentences a document can go on with: a single token or an example; the
\* sentence of many organizations is a document of its own
LaterSentences ==
    { Annotated(<<token>>, <<>>, <<>>, 0) : token \in Tokens } \cup ExampleSentences

NextSentences(sents) ==
    IF sents = <<>> THEN FirstSentences
    ELSE IF sents[1].tokens = ManyEntitiesSentence.tokens THEN {}
    ELSE LaterSentences

\* the number of tokens of the sentences: the document index of the next token
RECURSIVE TokenCount(_)
TokenCount(sents) ==
    IF sents = <<>> THEN 0 ELSE Len(Head(sents).tokens) + TokenCount(Tail(sents))

\* process_text up to the loop over the sentences
process_text ==
    /\ nlp_pc = "idle"
    /\ sentences' = <<>>
    /\ processed_sentences' = <<>>
    /\ all_subjects' = <<>>
    /\ all_concepts' = <<>>
    /\ all_relations' = <<>>
    /\ nlp_pc' = "sentences"
    /\ UNCHANGED <<result, lookups>>
    /\ UNCHANGED <<analyzer_vars, scan_vars, pipeline_vars>>

\* one iteration of `for sent_idx, sent in enumerate(sentences)`, for the
\* next sentence of the annotated text
_process_sentence ==
    /\ nlp_pc = "sentences"
    /\ Len(sentences) < MaxSents
    /\ \E s \in NextSentences(sentences) :
        LET sent == [s EXCEPT !.start = TokenCount(sentences)]
            found == _extract_concepts_and_relations(sent)
        IN /\ sentences' = Append(sentences, sent)
           /\ processed_sentences' = Append(processed_sentences, sentence_obj(sent.tokens))
           /\ all_subjects' = all_subjects \o _extract_subjects(sent)
           /\ all_concepts' = all_concepts \o found.concepts
           /\ all_relations' = all_relations \o found.relations
    /\ UNCHANGED <<nlp_pc, result, lookups>>
    /\ UNCHANGED <<analyzer_vars, scan_vars, pipeline_vars>>

\* the text has no further sentence: the result is built; entity[0] raises on
\* an empty entity, otherwise the result goes to the enrichment or is returned
process_text_return ==
    /\ nlp_pc = "sentences"
    /\ IF WikiCandidatesRaise(all_subjects \o all_concepts)
       THEN /\ nlp_pc' = "raised"
            /\ UNCHANGED result
       ELSE \E enrich_wikipedia \in BOOLEAN :
            \E wiki_blues \in _extract_wiki_candidates(all_subjects \o all_concepts) :
                /\ result' = << [sentences |-> processed_sentences,
                                 subjects |-> ListOfSet(all_subjects),
                                 phen |-> _extract_phenomena(all_subjects, all_concepts,
                                                             all_relations),
                                 wiki_blues |-> wiki_blues,
                                 wiki |-> <<>>] >>
                /\ nlp_pc' = IF enrich_wikipedia THEN "enrich" ELSE "returned"
    /\ UNCHANGED <<sentences, processed_sentences, all_subjects, all_concepts,
                   all_relations, lookups>>
    /\ UNCHANGED <<analyzer_vars, scan_vars, pipeline_vars>>

\* integrate_wikipedia_sync returns: one entry per candidate among the first 10
integrate_wikipedia_sync ==
    /\ nlp_pc = "enrich"
    /\ LET wiki_candidates == result[1].wiki_blues
           n == IF Len(wiki_candidates) < LookupLimit THEN Len(wiki_candidates)
                ELSE LookupLimit
       IN \E outcomes \in LookupOutcomes(n) :
            /\ lookups' = outcomes
            /\ result' = << [result[1] EXCEPT !.wiki =
                                [k \in 1..n |-> WikiEntry(wiki_candidates[k], outcomes[k])]] >>
    /\ nlp_pc' = "returned"
    /\ UNCHANGED <<sentences, processed_sentences, all_subjects, all_concepts, all_relations>>
    /\ UNCHANGED <<analyzer_vars, scan_vars, pipeline_vars>>

\* integrate_wikipedia_sync raises: process_text prints the error and returns
\* the result as it was built
integrate_wikipedia_sync_raises ==
    /\ nlp_pc = "enrich"
    /\ lookups' = <<"raised">>
    /\ nlp_pc' = "returned"
    /\ UNCHANGED <<sentences, processed_sentences, all_subjects, all_concepts,
                   all_relations, result>>
    /\ UNCHANGED <<analyzer_vars, scan_vars, pipeline_vars>>

NextNLP ==
    \/ process_text
    \/ _process_sentence
    \/ process_text_return
    \/ integrate_wikipedia_sync
    \/ integrate_wikipedia_sync_raises

SpecNLP == Init /\ [][NextNLP]_vars

(***************************************************************************)
(* Properties of the Responsibility Scoring Engine.                        *)
(***************************************************************************)
Finished == pc \in {"returned", "raised"}

\* the string s occurs in the string t: at some offset every character of s
\* is the character of t at that place
OccursIn(s, t) ==
    \E a \in 0..(Len(t) - Len(s)) : \A k \in 1..Len(s) : t[a + k] = s[k]

\* for each entity name, the sentence texts whose lowercase form holds the
\* lowercase form of the name
MentioningTexts ==
    [name \in EntityNames |->
        {t \in {o.sentence : o \in SentenceObjects} : OccursIn(lower(name), lower(t))}]

\* sentence number i of the report mentions the string name
Mentions(i, name) == source.sentences[i].sentence \in MentioningTexts[name]

InList(x, list) == \E k \in 1..Len(list) : list[k] = x

\* C1: when the subject list holds an entity that no sentence mentions,
\* generate_responsibility_report still returns a report; the entity has no
\* entry in entity_assessments and is counted in total_entities.
C1_ZeroMentionEntityCounted ==
    \A j \in 1..Len(source.subjects) :
        (/\ Finished
         /\ \A i \in 1..Len(source.sentences) : ~Mentions(i, source.subjects[j]))
        => /\ pc = "returned"
           /\ Len(report) = 1
           /\ report[1].total_entities = Len(source.subjects)
           /\ \A a \in 1..Len(report[1].entity_assessments) :
                report[1].entity_assessments[a].entity # source.subjects[j]

\* C2: every accumulator that reaches the scorer, whatever its mention count,
\* gets an intention score and a negligence score of at least 0.1 and a ratio
\* that is defined and positive, and no step of scoring divides by zero.
C2_ScoresFlooredRatioPositive ==
    \A k \in 1..Len(calls) :
        /\ RLe(Rat(1, 10), calls[k].intention)
        /\ RLe(Rat(1, 10), calls[k].negligence)
        /\ calls[k].negligence[1] # 0
        /\ RLt(RInt(0), calls[k].responsibility_ratio)
        /\ calls[k].outcome # "ZeroDivisionError"

\* C3: a subject is in the mentioned-entity list of a sentence exactly when
\* its lowercase form occurs in the lowercase form of the sentence text, also
\* when it occurs inside a longer word.
C3_MentionedIffSubstring ==
    \A i \in 1..Len(events) :
        \A j \in 1..Len(source.subjects) :
            InList(source.subjects[j], events[i].entities) <=> Mentions(i, source.subjects[j])

\* an event lists Ford for the sentence "Fordham fell" and does not list Acme
C3_Witness ==
    \E i \in 1..Len(events) :
        /\ events[i].sentence = TextFordham
        /\ InList(Ford, events[i].entities)
        /\ InList(Acme, source.subjects)
        /\ ~InList(Acme, events[i].entities)

\* the number of the first n sentences of the report that mention name
MentionsAmong(n, name) == Cardinality({i \in 1..n : Mentions(i, name)})

\* C4: while the sentences are scanned, each processed sentence has raised an
\* entity's mention count by 1 if it mentions the entity and by 0 otherwise:
\* at every point of the scan, and so after it, the count is the number of
\* the sentences processed so far that mention the entity.
C4_MentionCountIsSentenceCount ==
    \A k \in 1..Len(entities) :
        entities[k].mention_count = MentionsAmong(cursor - 1, entities[k].name)

\* after a scan of two sentences one entity has count 2 and another count 1
C4_Witness ==
    /\ pc = "scan"
    /\ cursor > Len(source.sentences)
    /\ \E j, k \in 1..Len(entities) :
        /\ entities[j].mention_count = 2
        /\ entities[k].mention_count = 1

\* the component-wise sum of the warm (or cold) vectors of those of the
\* first n sentences that mention name
RECURSIVE SumMentioning(_, _, _)
SumMentioning(n, name, warm) ==
    IF n = 0 THEN ZeroVector
    ELSE LET rest == SumMentioning(n - 1, name, warm)
             v == IF warm THEN source.sentences[n].warm_vector
                  ELSE source.sentences[n].cold_vector
         IN IF Mentions(n, name)
            THEN [i \in 1..3 |-> RAdd(rest[i], v[i])]
            ELSE rest

\* C5: each entity's warm-vector sum and cold-vector sum are, component by
\* component, the sums of the warm and cold vectors of exactly the sentences
\* (scanned so far, and so after the scan all) that mention it; sentences that
\* do not mention an entity leave its count and sums as they were.
C5_VectorSums ==
    \A k \in 1..Len(entities) :
        /\ entities[k].warm_vector_sum = SumMentioning(cursor - 1, entities[k].name, TRUE)
        /\ entities[k].cold_vector_sum = SumMentioning(cursor - 1, entities[k].name, FALSE)
        /\ (\A i \in 1..(cursor - 1) : ~Mentions(i, entities[k].name))
            => entities[k] = LinguaLintEntity(entities[k].name)

\* after the scan an entity mentioned once carries that sentence's vectors,
\* and another sentence with non-zero vectors did not mention it
C5_Witness ==
    /\ pc = "scan"
    /\ cursor > Len(source.sentences)
    /\ \E k \in 1..Len(entities) : \E i, j \in 1..Len(source.sentences) :
        /\ entities[k].mention_count = 1
        /\ Mentions(i, entities[k].name)
        /\ entities[k].warm_vector_sum = source.sentences[i].warm_vector
        /\ entities[k].warm_vector_sum # ZeroVector
        /\ ~Mentions(j, entities[k].name)
        /\ source.sentences[j].warm_vector # ZeroVector
        /\ source.sentences[j].cold_vector # ZeroVector

\* C6: one event per sentence, in source order, whether or not an entity
\* matched; total_events of the report is the number of sentences.
C6_OneEventPerSentence ==
    /\ Len(events) = cursor - 1
    /\ \A i \in 1..Len(events) :
        /\ events[i].sentence = source.sentences[i].sentence
        /\ events[i].warm_vector = source.sentences[i].warm_vector
        /\ events[i].cold_vector = source.sentences[i].cold_vector
    /\ Finished => Len(events) = Len(source.sentences)
    /\ pc = "returned" => report[1].total_events = Len(source.sentences)

\* a report over two sentences, one of which matched no entity
C6_Witness ==
    /\ pc = "returned"
    /\ source.subjects # <<>>
    /\ report[1].total_events = 2
    /\ \E i \in 1..Len(events) : events[i].entities = <<>>

\* 100 * (a/10 * v[1]/m + b/10 * v[2]/m + c/10 * v[3]/m), floored at 0.1
FlooredWeightedMean(v, m, a, b, c) ==
    LET mean == [i \in 1..3 |-> Rat(v[i][1], v[i][2] * m)]
        raw == RMul(RInt(100),
                    RAdd(RMul(Rat(a, 10), mean[1]),
                         RAdd(RMul(Rat(b, 10), mean[2]), RMul(Rat(c, 10), mean[3]))))
    IN IF RLt(raw, Rat(1, 10)) THEN Rat(1, 10) ELSE raw

\* C7: for an entity with m > 0 mentions the scorer computes
\* intention = max(0.1, 100*(0.4*warm[0] + 0.4*warm[1] + 0.2*warm[2])),
\* negligence = max(0.1, 100*(0.5*cold[0] + 0.3*cold[1] + 0.2*cold[2])) on the
\* mean vectors and ratio = intention/negligence; m = 2, warm sums
\* [0.4,0.2,0.6], cold sums [0.1,0.0,0.2] give 18.0, 4.5, 4.0 and Moderate.
C7_ScoreFormulas ==
    \A k \in 1..Len(calls) :
        LET c == calls[k]
            e == entities[k]
        IN (e.mention_count > 0) =>
            /\ c.entity = e.name
            /\ c.intention = FlooredWeightedMean(e.warm_vector_sum, e.mention_count, 4, 4, 2)
            /\ c.negligence = FlooredWeightedMean(e.cold_vector_sum, e.mention_count, 5, 3, 2)
            /\ c.responsibility_ratio[1] * c.negligence[1] * c.intention[2]
                    = c.intention[1] * c.negligence[2] * c.responsibility_ratio[2]
            /\ (/\ e.mention_count = 2
                /\ e.warm_vector_sum = <<Rat(4, 10), Rat(2, 10), Rat(6, 10)>>
                /\ e.cold_vector_sum = <<Rat(1, 10), RInt(0), Rat(2, 10)>>)
               => /\ c.intention = RInt(18)
                  /\ c.negligence = Rat(45, 10)
                  /\ c.responsibility_ratio = RInt(4)
                  /\ c.risk_level = "Moderate"

\* the example entity has been scored
C7_Witness ==
    \E k \in 1..Len(calls) :
        /\ entities[k].mention_count = 2
        /\ entities[k].warm_vector_sum = <<Rat(4, 10), Rat(2, 10), Rat(6, 10)>>
        /\ entities[k].cold_vector_sum = <<Rat(1, 10), RInt(0), Rat(2, 10)>>
        /\ calls[k].intention = RInt(18)
        /\ calls[k].risk_level = "Moderate"

RiskLevels == <<"Very Low", "Low", "Moderate", "High", "Very High">>
TierRank(level) == CHOOSE n \in 1..Len(RiskLevels) : RiskLevels[n] = level

PositionIn(list, x) == CHOOSE k \in 1..Len(list) : list[k] = x

\* C9: entity_assessments is in descending order of responsibility_ratio, and
\* assessments of equal ratio are in the order of their entities in the
\* subject list.
C9_SortedStable ==
    pc = "returned" =>
        LET as == report[1].entity_assessments
        IN /\ Len(as) = Len(source.subjects)
           /\ \A i, j \in 1..Len(as) :
                i < j =>
                    /\ RLe(as[j].responsibility_ratio, as[i].responsibility_ratio)
                    /\ as[i].responsibility_ratio = as[j].responsibility_ratio
                        => PositionIn(source.subjects, as[i].entity)
                                < PositionIn(source.subjects, as[j].entity)

\* a report where the sort moved a later subject ahead and kept a tie in order
C9_Witness ==
    /\ pc = "returned"
    /\ LET as == report[1].entity_assessments
       IN \E i, j, k \in 1..Len(as) :
            /\ i < j /\ j < k
            /\ as[i].responsibility_ratio = as[j].responsibility_ratio
            /\ RLt(as[k].responsibility_ratio, as[j].responsibility_ratio)
            /\ PositionIn(source.subjects, as[k].entity)
                    < PositionIn(source.subjects, as[i].entity)

(***************************************************************************)
(* Properties of the Linguistic Feature Extractor.                         *)
(***************************************************************************)
InUnitInterval(x) == 0 <= x[1] /\ 0 < x[2] /\ x[1] <= x[2]

\* C10: every sentence record of process_text has a warm vector and a cold
\* vector of exactly 3 components, each in [0,1], also for a sentence with no
\* alphabetic token.
C10_VectorsInUnitCube ==
    /\ \A i \in 1..Len(processed_sentences) :
        LET o == processed_sentences[i]
        IN /\ DOMAIN o.warm_vector = 1..3
           /\ DOMAIN o.cold_vector = 1..3
           /\ \A c \in 1..3 :
                InUnitInterval(o.warm_vector[c]) /\ InUnitInterval(o.cold_vector[c])
    /\ nlp_pc = "returned" => result[1].sentences = processed_sentences

\* a returned extraction with a sentence of punctuation only (all components
\* 0) and a sentence whose keywords are all positive (components 1)
C10_Witness ==
    /\ nlp_pc = "returned"
    /\ \E i, j \in 1..Len(result[1].sentences) :
        /\ result[1].sentences[i].sentence = <<".">>
        /\ result[1].sentences[i].warm_vector = ZeroVector
        /\ result[1].sentences[i].cold_vector = ZeroVector
        /\ result[1].sentences[j].warm_vector[1] = RInt(1)
        /\ result[1].sentences[j].warm_vector[3] = RInt(1)

\* Further properties of the extractor and of the engine.
(***************************************************************************)
(* Properties of the Document Extractor, under SpecNLP.                    *)
(***************************************************************************)
Elements(xs) == {xs[k] : k \in 1..Len(xs)}

UpperLetters == Elements(UpperChars)
Letters == UpperLetters \cup Elements(LowerChars)

\* the lowercase texts of the alphabetic tokens of the sentence
AlphabeticWords(tokens) ==
    LET alphabetic == SelectSeq(tokens, LAMBDA token :
                        token.text # <<>> /\ Elements(token.text) \subseteq Letters)
    IN [k \in 1..Len(alphabetic) |-> lower(alphabetic[k].text)]

\* the number of words that are in S
Hits(words, S) == Cardinality({k \in 1..Len(words) : words[k] \in S})

AtLeastOne(n) == IF n >= 1 THEN n ELSE 1

\* C11: with n alphabetic tokens, p positive and q negative keyword hits,
\* warm = [p/max(n,1), modal hits/max(n,1), p/max(p+q,1)] and
\* cold = [q/max(n,1), risk-modal hits/max(n,1), q/max(p+q,1)]; a sentence with
\* a positive keyword and no negative or risk-modal keyword has warm[0] > 0 and
\* a cold vector of zeros.
C11_VectorFormulas ==
    /\ Len(processed_sentences) = Len(sentences)
    /\ \A k \in 1..Len(sentences) :
        LET words == AlphabeticWords(sentences[k].tokens)
            n == Len(words)
            p == Hits(words, positive_words)
            q == Hits(words, negative_words)
            modal == Hits(words, engagement_words)
            risk == Hits(words, risk_words)
            warm == processed_sentences[k].warm_vector
            cold == processed_sentences[k].cold_vector
        IN /\ warm = << Rat(p, AtLeastOne(n)), Rat(modal, AtLeastOne(n)),
                        Rat(p, AtLeastOne(p + q)) >>
           /\ cold = << Rat(q, AtLeastOne(n)), Rat(risk, AtLeastOne(n)),
                        Rat(q, AtLeastOne(p + q)) >>
           /\ (p > 0 /\ q = 0 /\ risk = 0)
                => (RLt(RInt(0), warm[1]) /\ cold = ZeroVector)

\* a returned extraction of "Apple reported growth.": one positive keyword
\* among three alphabetic tokens
C11_Witness ==
    /\ nlp_pc = "returned"
    /\ \E k \in 1..Len(sentences) :
        /\ sentences[k].tokens = AppleSentence.tokens
        /\ result[1].sentences[k].warm_vector = <<Rat(1, 3), RInt(0), RInt(1)>>
        /\ result[1].sentences[k].cold_vector = ZeroVector

\* the text is empty or white space only: no sentence, or SPACE tokens only
BlankText ==
    \A k \in 1..Len(sentences) :
        \A j \in 1..Len(sentences[k].tokens) : sentences[k].tokens[j].pos_ = "SPACE"

\* C12: for an empty or whitespace-only text process_text does not fail and
\* returns an extraction with zero sentence records, no subjects and no
\* phenomena.
C12_BlankTextEmptyExtraction ==
    (nlp_pc \in {"enrich", "returned", "raised"} /\ BlankText) =>
        /\ nlp_pc # "raised"
        /\ result[1].sentences = <<>>
        /\ result[1].subjects = <<>>
        /\ result[1].phen = <<>>

\* the extraction without its wiki array
Extraction(r) ==
    [sentences |-> r.sentences, subjects |-> r.subjects, phen |-> r.phen,
     wiki_blues |-> r.wiki_blues]

\* C13: when the enrichment runs, whatever fails in it, process_text returns:
\* sentences, subjects, phen and wiki_blues are those built before the
\* enrichment (the result with enrichment disabled), the wiki array is empty
\* if the enrichment failed as a whole and otherwise has one entry per
\* candidate looked up, a failed candidate with an empty summary.
C13_EnrichmentFailureTolerated ==
    [][nlp_pc = "enrich" =>
        /\ nlp_pc' = "returned"
        /\ result' # <<>>
        /\ Extraction(result'[1]) = Extraction(result[1])
        /\ IF lookups' = <<"raised">> THEN result'[1].wiki = <<>>
           ELSE /\ Len(result'[1].wiki) = Len(lookups')
                /\ Len(lookups') <= Len(result[1].wiki_blues)
                /\ \A k \in 1..Len(lookups') :
                    /\ result'[1].wiki[k].wiki_search_content = result[1].wiki_blues[k]
                    /\ lookups'[k] \in {"none", "error"}
                        => result'[1].wiki[k].wiki_summary = <<>>]_vars

\* a returned extraction whose enrichment found a page for one candidate and
\* failed with an exception for another
C13_Witness ==
    /\ nlp_pc = "returned"
    /\ \E j, k \in 1..Len(lookups) :
        /\ lookups[j] = "page"
        /\ lookups[k] = "error"
        /\ result[1].wiki[j].wiki_summary # <<>>
        /\ result[1].wiki[k].wiki_summary = <<>>

\* C14 as stated: every subject string and every phenomenon string is longer
\* than 2 characters after trimming, and neither array has a string twice.
C14_SubjectsAndPhenLong ==
    result # <<>> =>
        /\ \A x \in Elements(result[1].subjects) \cup Elements(result[1].phen) :
            Len(strip(x)) > 2
        /\ NoDuplicates(result[1].subjects)
        /\ NoDuplicates(result[1].phen)

\* the texts of the entity spans and of the noun chunks of the document
SpanAndChunkTexts ==
    UNION { {sentences[k].ents[j].text : j \in 1..Len(sentences[k].ents)}
                \cup Elements(sentences[k].noun_chunks) : k \in 1..Len(sentences) }

\* C14, amended: every phenomenon string is longer than 2 characters after
\* trimming and neither array has a string twice; a subject may be shorter,
\* but only if it is the text of an entity span or of a noun chunk.
C14_PhenLongNoDuplicates ==
    result # <<>> =>
        /\ \A x \in Elements(result[1].phen) : Len(strip(x)) > 2
        /\ \A x \in Elements(result[1].subjects) :
            Len(strip(x)) > 2 \/ x \in SpanAndChunkTexts
        /\ NoDuplicates(result[1].subjects)
        /\ NoDuplicates(result[1].phen)

\* a returned extraction of two sentences that both name "EU": the subject is
\* listed once, it has 2 characters, and it is not a phenomenon
C14_Witness ==
    /\ nlp_pc = "returned"
    /\ ~NoDuplicates(all_subjects)
    /\ \E x \in Elements(result[1].subjects) :
        /\ Len(strip(x)) = 2
        /\ x \notin Elements(result[1].phen)

\* the subjects, concepts and relations extracted from the sentences of the
\* document
ExtractedStrings ==
    Elements(all_subjects) \cup Elements(all_concepts) \cup Elements(all_relations)

\* C15: the phenomena array is exactly the set of the trimmed forms, longer
\* than 2 characters, of the subjects, concepts and relations extracted from
\* the sentences of the document, each once.
C15_PhenIsTrimmedUnion ==
    result # <<>> =>
        /\ Elements(result[1].phen) =
                {strip(x) : x \in {y \in ExtractedStrings : Len(strip(y)) > 2}}
        /\ NoDuplicates(result[1].phen)

\* a returned extraction whose phenomena hold a relation window, while an
\* extracted subject of 2 characters was left out
C15_Witness ==
    /\ nlp_pc = "returned"
    /\ \E x \in Elements(all_relations) : x \in Elements(result[1].phen)
    /\ \E x \in Elements(all_subjects) :
        Len(strip(x)) <= 2 /\ x \notin Elements(result[1].phen)

\* an entity qualifies as enrichment candidate
Qualifies(x) ==
    \/ x[1] \in UpperLetters
    \/ \E term \in wiki_priority_terms : OccursIn(term, lower(x))
    \/ Len(split(x)) >= 2

QualifyingStrings ==
    {x \in Elements(all_subjects) \cup Elements(all_concepts) : Qualifies(x)}

\* C16: wiki_blues has at most 20 entries, none twice, each an extracted
\* subject or concept that qualifies; when at most 20 distinct strings qualify
\* every one of them is in the list.
C16_WikiCandidates ==
    result # <<>> =>
        LET qualifying == QualifyingStrings
            listed == Elements(result[1].wiki_blues)
        IN /\ Len(result[1].wiki_blues) <= 20
           /\ NoDuplicates(result[1].wiki_blues)
           /\ listed \subseteq qualifying
           /\ Cardinality(qualifying) <= 20 => qualifying \subseteq listed

\* a returned extraction of a document with 21 qualifying subjects: 20 are
\* listed
C16_Witness ==
    /\ nlp_pc = "returned"
    /\ Cardinality(QualifyingStrings) = 21
    /\ Len(result[1].wiki_blues) = 20

(***************************************************************************)
(* Documents analysed in sequence, under SpecSequence.                     *)
(***************************************************************************)
\* the accumulators after the sentences k.. of the report, analysed alone
RECURSIVE ScanAlone(_, _, _)
ScanAlone(ents, data, k) ==
    IF k > Len(data.sentences) THEN ents
    ELSE ScanAlone(UpdateEntities(ents,
                        MentionedEntities(data.subjects, data.sentences[k].sentence),
                        data.sentences[k].warm_vector, data.sentences[k].cold_vector),
                   data, k + 1)

\* C17: whatever was analysed before, the analysis of a document ends as the
\* analysis of that document alone: it raises if and only if that one does,
\* and total_entities, total_events and entity_assessments are the same.
C17_AnalysisIndependentOfHistory ==
    Finished =>
        LET alone == ScanAlone(InitEntities(<<>>, source.subjects), source, 1)
            results == [k \in 1..Len(alone) |->
                            calculate_responsibility_ratio(alone, alone[k].name)]
        IN IF \E k \in 1..Len(results) : results[k].outcome = "ZeroDivisionError"
           THEN pc = "raised"
           ELSE /\ pc = "returned"
                /\ report[1].total_entities = Len(alone)
                /\ report[1].total_events = Len(source.sentences)
                /\ report[1].entity_assessments =
                        SortByRatioDescending(
                            Flatten([k \in 1..Len(results) |-> results[k].returned]))

\* the second document of a sequence has been analysed and its report, with an
\* entity and an event, returned
C17_Witness ==
    /\ runs = 2
    /\ pc = "returned"
    /\ report[1].total_entities > 0
    /\ report[1].total_events > 0

(***************************************************************************)
(* Properties of the Lexical Prime Matcher and of the concept and relation *)
(* lists, under SpecScan.                                                  *)
(***************************************************************************)
\* the token positions a match (position, matched text) covers
MatchSpan(m) == m[1]..(m[1] + Len(split(m[2])) - 1)

\* C18: the matches of the prime scan are in strictly increasing position and
\* their token spans are pairwise disjoint, so no token belongs to two matches
\* and a token inside a multi-word match is not reported as a match of its own.
C18_MatchesIncreasingDisjoint ==
    \A a, b \in 1..Len(scan_primes) :
        a < b => /\ scan_primes[a][1] < scan_primes[b][1]
                 /\ MatchSpan(scan_primes[a]) \cap MatchSpan(scan_primes[b]) = {}

\* a returned scan with a multi-word match that consumed a token which alone
\* is a single-word prime ("for Some time"), followed by a later match
C18_Witness ==
    /\ scan_pc = "returned"
    /\ \E a, b \in 1..Len(scan_primes) :
        /\ a < b
        /\ Cardinality(MatchSpan(scan_primes[a])) > 1
        /\ \E p \in MatchSpan(scan_primes[a]) :
            /\ p # scan_primes[a][1]
            /\ lower(scan_sent.tokens[p + 1].text) \in prime_singles

\* the n tokens from position p on, lowercased and joined, are in the vocabulary
VocabularyMatch(tokens, p, n) ==
    /\ p + n <= Len(tokens)
    /\ IF n = 1 THEN Phrase(tokens, p, 1) \in prime_singles
       ELSE Phrase(tokens, p, n) \in prime_phrases

\* the length of the longest vocabulary match that starts at p, 0 if none does
LongestMatch(tokens, p) ==
    LET lens == {n \in 1..4 : VocabularyMatch(tokens, p, n)}
    IN IF lens = {} THEN 0 ELSE CHOOSE n \in lens : \A m \in lens : m <= n

\* the positions the scan has stood at: those passed that are not inside a match
ScanPositions ==
    {p \in 0..(scan_i - 1) :
        ~(\E k \in 1..Len(scan_primes) :
            p \in MatchSpan(scan_primes[k]) /\ p # scan_primes[k][1])}

MatchesAt(p) == {k \in 1..Len(scan_primes) : scan_primes[k][1] = p}

\* C19: at each scan position the scan records the longest vocabulary match
\* starting there, compared case-insensitively: a multi-word prime wins over a
\* single-word prime, a single-word match is recorded only where no multi-word
\* prime starts, and nothing is recorded where no prime starts.
C19_LongestMatchRecorded ==
    /\ \A k \in 1..Len(scan_primes) : scan_primes[k][1] \in ScanPositions
    /\ \A p \in ScanPositions :
        LET n == LongestMatch(scan_sent.tokens, p)
        IN IF n = 0 THEN MatchesAt(p) = {}
           ELSE /\ Cardinality(MatchesAt(p)) = 1
                /\ \A k \in MatchesAt(p) :
                    scan_primes[k][2] = Phrase(scan_sent.tokens, p, n)

\* a returned scan that recorded the three-token prime "for some time" from
\* tokens written with a capital letter, and a single-word prime elsewhere
C19_Witness ==
    /\ scan_pc = "returned"
    /\ \E a, b \in 1..Len(scan_primes) :
        /\ Cardinality(MatchSpan(scan_primes[a])) = 3
        /\ \E p \in MatchSpan(scan_primes[a]) :
            scan_sent.tokens[p + 1].text # lower(scan_sent.tokens[p + 1].text)
        /\ Cardinality(MatchSpan(scan_primes[b])) = 1

\* the relational subset of the vocabulary
RelationalSubset ==
    { <<"b","e","c","a","u","s","e">>, <<"i","f">>, <<"w","h","e","n">>,
      <<"w","h","e","r","e">>, <<"d","o">>, <<"h","a","p","p","e","n">>,
      <<"m","o","v","e">>, <<"s","a","y">>, <<"t","h","i","n","k">>,
      <<"f","e","e","l">>, <<"s","e","e">>, <<"h","e","a","r">>,
      <<"l","i","k","e">>, <<"c","a","n">> }

\* the numbers of the matches that are (or are not) relational, in order
MatchNumbers(relational) ==
    SelectSeq([k \in 1..Len(scan_primes) |-> k],
              LAMBDA k : (scan_primes[k][2] \in RelationalSubset) = relational)

WindowOf(k) ==
    _extract_concept_window(scan_sent.tokens, scan_primes[k][1], scan_primes[k][2])

\* C20: every prime match yields one window string; the windows of the matches
\* whose text is in the relational subset are the relations list, in match
\* order, and the windows of the other matches open the concepts list, in
\* match order: no match puts its window on both lists.
C20_WindowToOneList ==
    scan_pc = "returned" =>
        LET rel == MatchNumbers(TRUE)
            con == MatchNumbers(FALSE)
        IN /\ Len(rel) + Len(con) = Len(scan_primes)
           /\ scan_relations = [k \in 1..Len(rel) |-> WindowOf(rel[k])]
           /\ Len(scan_concepts) >= Len(con)
           /\ SubSeq(scan_concepts, 1, Len(con)) = [k \in 1..Len(con) |-> WindowOf(con[k])]

\* a returned call with a relational and a non-relational match, whose
\* concepts list also holds a phrase that comes from no prime match
C20_Witness ==
    /\ scan_pc = "returned"
    /\ Len(scan_relations) > 0
    /\ Len(MatchNumbers(FALSE)) > 0
    /\ Len(scan_concepts) > Len(MatchNumbers(FALSE))

\* the window string recorded for match k: matches of one class put their
\* windows on their list in match order
RecordedWindow(k) ==
    LET relational == scan_primes[k][2] \in RelationalSubset
        rank == Cardinality({j \in 1..k : (scan_primes[j][2] \in RelationalSubset) = relational})
    IN IF relational THEN scan_relations[rank] ELSE scan_concepts[rank]

\* the positions a window of match m may draw on: outside the match, at most 3
\* before its first or after its last token, no punctuation, no white space
WindowPositions(tokens, m) ==
    LET span == MatchSpan(m)
    IN {p \in 0..(Len(tokens) - 1) :
            /\ p \notin span
            /\ \E q \in span : p - q <= 3 /\ q - p <= 3
            /\ tokens[p + 1].pos_ \notin {"PUNCT", "SPACE"}}

\* the texts of the tokens at the positions P, in sentence order, joined
TextAt(tokens, P) ==
    LET at == SelectSeq([k \in 1..Len(tokens) |-> k - 1], LAMBDA p : p \in P)
    IN Join([k \in 1..Len(at) |-> tokens[at[k] + 1].text], <<" ">>)

\* C21: the window string of every prime match, single-word or multi-word, is
\* made of tokens at most 3 positions before or after the match, in sentence
\* order, none of them punctuation, white space or a token of the match.
C21_WindowExcludesMatch ==
    scan_pc = "returned" =>
        \A k \in 1..Len(scan_primes) :
            \E P \in SUBSET WindowPositions(scan_sent.tokens, scan_primes[k]) :
                RecordedWindow(k) = TextAt(scan_sent.tokens, P)

\* token j of the sentence lies inside an entity span of an allow-listed type:
\* a run of tokens around it reads as the text of such an entity
InsideListedEntity(s, j) ==
    \E e \in 1..Len(s.ents) :
        /\ s.ents[e].label_ \in {"PERSON", "ORG", "GPE", "PRODUCT", "EVENT", "LAW", "MONEY"}
        /\ \E a \in 1..j : \E b \in j..Len(s.tokens) :
            s.ents[e].text = Join([k \in 1..(b - a + 1) |-> s.tokens[a + k - 1].text], <<" ">>)

\* a proper-noun token that is capitalized and longer than 2 characters
ProperNoun(token) ==
    token.pos_ = "PROPN" /\ token.text[1] \in UpperLetters /\ Len(token.text) > 2

\* the text is a subject for a reason of its own: it is the text of a listed
\* entity or of a noun chunk, or a proper noun outside every listed entity
SubjectOfItsOwn(text) ==
    \E k \in 1..Len(sentences) :
        \/ \E e \in 1..Len(sentences[k].ents) :
            /\ sentences[k].ents[e].text = text
            /\ sentences[k].ents[e].label_ \in
                    {"PERSON", "ORG", "GPE", "PRODUCT", "EVENT", "LAW", "MONEY"}
        \/ text \in Elements(sentences[k].noun_chunks)
        \/ \E j \in 1..Len(sentences[k].tokens) :
            /\ sentences[k].tokens[j].text = text
            /\ ProperNoun(sentences[k].tokens[j])
            /\ ~InsideListedEntity(sentences[k], j)

\* C22: a capitalized proper-noun token longer than 2 characters is a subject
\* unless it lies inside a named-entity span of an allow-listed type: an entity
\* of another type does not suppress it, and a token inside an allow-listed
\* span is not emitted separately.
C22_ProperNounSubjects ==
    \A k \in 1..Len(sentences) : \A j \in 1..Len(sentences[k].tokens) :
        LET token == sentences[k].tokens[j]
        IN ProperNoun(token) =>
            IF InsideListedEntity(sentences[k], j)
            THEN token.text \in Elements(all_subjects) => SubjectOfItsOwn(token.text)
            ELSE token.text \in Elements(all_subjects)

\* accumulator b holds at least what accumulator a holds
NoLess(a, b) ==
    /\ b.name = a.name
    /\ b.mention_count >= a.mention_count
    /\ \A c \in 1..3 :
        /\ RLe(a.warm_vector_sum[c], b.warm_vector_sum[c])
        /\ RLe(a.cold_vector_sum[c], b.cold_vector_sum[c])

\* C23: the lifecycle of the entity accumulators. When the scan of the
\* sentences begins, every subject has an accumulator with mention count 0 and
\* zero vector sums; each sentence scanned leaves the accumulators in place and
\* lowers no mention count and no component of a vector sum; scoring and
\* report generation change no accumulator and no event.
C23_AccumulatorLifecycle ==
    [][ /\ (pc = "idle" /\ pc' = "scan") =>
            /\ cursor' = 1
            /\ \A s \in 1..Len(source'.subjects) :
                \E k \in 1..Len(entities') :
                    entities'[k] = LinguaLintEntity(source'.subjects[s])
        /\ (pc = "scan" /\ pc' = "scan") =>
            /\ Len(entities') = Len(entities)
            /\ \A k \in 1..Len(entities) : NoLess(entities[k], entities'[k])
        /\ (pc = "scan" /\ pc' # "scan") =>
            /\ entities' = entities
            /\ events' = events ]_vars

\* a report was generated for an entity that two sentences mention
C23_Witness ==
    /\ pc = "returned"
    /\ Len(events) = 2
    /\ \E k \in 1..Len(entities) :
        /\ entities[k].mention_count = 2
        /\ entities[k].cold_vector_sum # ZeroVector

\* the assessments of the report, each with the locals of the call that made it
Assessed == {k \in 1..Len(calls) : calls[k].returned # <<>>}

\* C24 as stated: in every assessment of the report, risk_level is the tier
\* that the thresholds assign to the responsibility_ratio shown in the same
\* assessment (the ratio rounded to 3 decimals).
C24_TierOfShownRatio ==
    pc = "returned" =>
        \A n \in 1..Len(report[1].entity_assessments) :
            LET a == report[1].entity_assessments[n]
            IN a.risk_level = RiskLevel(a.responsibility_ratio)

\* x is one of the thresholds 10, 5, 2, 1
IsThreshold(x) == x \in {RInt(10), RInt(5), RInt(2), RInt(1)}

\* C24, amended: risk_level is the tier of the ratio before rounding; the
\* ratio shown is a multiple of 0.001 at most 0.0005 away from it; and the tier
\* of the shown ratio is risk_level unless the shown ratio is a threshold that
\* the ratio itself exceeds.
C24_TierOfUnroundedRatio ==
    pc = "returned" =>
        \A k \in Assessed :
            LET a == calls[k].returned[1]
                ratio == RDiv(calls[k].intention, calls[k].negligence)
                shown == a.responsibility_ratio
            IN /\ \E n \in 1..Len(report[1].entity_assessments) :
                    report[1].entity_assessments[n] = a
               /\ a.risk_level = RiskLevel(ratio)
               /\ (shown[1] * 1000) % shown[2] = 0
               /\ RLe(ratio, RAdd(shown, Rat(1, 2000)))
               /\ RLe(shown, RAdd(ratio, Rat(1, 2000)))
               /\ a.risk_level # RiskLevel(shown) =>
                    IsThreshold(shown) /\ RLt(shown, ratio)

\* a report shows the ratio 1.0, a threshold, with the tier "High" of the
\* ratio 1.0004 behind it, and the ratio 1.0 with "Very High" for 0.9996
C24_Witness ==
    /\ pc = "returned"
    /\ \E j, k \in Assessed :
        /\ calls[j].returned[1].responsibility_ratio = RInt(1)
        /\ calls[j].returned[1].risk_level = "High"
        /\ calls[k].returned[1].responsibility_ratio = RInt(1)
        /\ calls[k].returned[1].risk_level = "Very High"
        /\ RLt(calls[k].responsibility_ratio, RInt(1))

\* a sentence of the document gave the empty string as a concept: a prime with
\* nothing but itself and punctuation in its window
EmptyConcept == <<>> \in Elements(all_concepts)

\* C25: process_text returns a Document Extraction for every document, a
\* document with an empty concept window included: the selection of the
\* enrichment candidates fails on no subject or concept string.
C25_ProcessTextReturns ==
    /\ nlp_pc # "raised"
    /\ (nlp_pc \in {"enrich", "returned"} /\ EmptyConcept) => result # <<>>

\* C26: a string listed more than once in the subjects array counts as one
\* entity: it has a single accumulator, whose mention count is the number of
\* the scanned sentences that mention it (at most 1 more per sentence) and
\* whose vector sums hold each mentioning sentence's vectors once, and every
\* event lists it at most once.
C26_RepetitionIgnored ==
    /\ \A j, k \in 1..Len(entities) : entities[j].name = entities[k].name => j = k
    /\ \A k \in 1..Len(entities) :
        /\ entities[k].mention_count = MentionsAmong(cursor - 1, entities[k].name)
        /\ entities[k].warm_vector_sum = SumMentioning(cursor - 1, entities[k].name, TRUE)
        /\ entities[k].cold_vector_sum = SumMentioning(cursor - 1, entities[k].name, FALSE)
    /\ \A e \in 1..Len(events) : NoDuplicates(events[e].entities)

\* every sentence of the report has been scanned
Aggregated == pc # "idle" /\ cursor > Len(source.sentences)

\* the accumulator of a subject of the report
Accumulator(name) == entities[IndexOf(entities, name)]

\* C27: for two subjects A and B of one document with the lowercase form of A
\* a substring of the lowercase form of B, after aggregation the mention count
\* of A is at least that of B and every sentence that mentions B mentions A;
\* two subjects that differ only in letter case have equal mention counts and
\* equal vector sums.
C27_SubstringSubjects ==
    Aggregated =>
        \A i, j \in 1..Len(source.subjects) :
            LET A == source.subjects[i]
                B == source.subjects[j]
            IN /\ OccursIn(lower(A), lower(B)) =>
                    /\ Accumulator(A).mention_count >= Accumulator(B).mention_count
                    /\ \A e \in 1..Len(events) :
                        InList(B, events[e].entities) => InList(A, events[e].entities)
               /\ lower(A) = lower(B) =>
                    /\ Accumulator(A).mention_count = Accumulator(B).mention_count
                    /\ Accumulator(A).warm_vector_sum = Accumulator(B).warm_vector_sum
                    /\ Accumulator(A).cold_vector_sum = Accumulator(B).cold_vector_sum

\* "Ford" and "ford" were each counted in two sentences, with the same nonzero
\* sums, and "Fordham" in one of the two
C27_Witness ==
    /\ Aggregated
    /\ InList(Ford, source.subjects) /\ InList(ford, source.subjects)
    /\ InList(Fordham, source.subjects)
    /\ Accumulator(Ford).mention_count = 2
    /\ Accumulator(ford).mention_count = 2
    /\ Accumulator(Fordham).mention_count = 1
    /\ Accumulator(Ford).warm_vector_sum = Accumulator(ford).warm_vector_sum
    /\ Accumulator(Ford).warm_vector_sum # ZeroVector

\* every vector component of every sentence of the report lies in [0, 1]
UnitVectors ==
    \A i \in 1..Len(source.sentences) : \A c \in 1..3 :
        /\ RLe(source.sentences[i].warm_vector[c], RInt(1))
        /\ RLe(source.sentences[i].cold_vector[c], RInt(1))

\* C28: for an entity with mention count > 0 whose sentences have their vector
\* components in [0, 1], the intention score and the negligence score are at
\* most 100 each, the ratio lies in [0.001, 1000], and the ratio shown in the
\* report, rounded to 3 decimals, is not 0.
C28_RatioRange ==
    UnitVectors =>
        \A k \in 1..Len(calls) :
            calls[k].mentions > 0 =>
                /\ RLe(calls[k].intention, RInt(100))
                /\ RLe(calls[k].negligence, RInt(100))
                /\ RLe(Rat(1, 1000), calls[k].responsibility_ratio)
                /\ RLe(calls[k].responsibility_ratio, RInt(1000))
                /\ calls[k].returned # <<>>
                /\ calls[k].returned[1].responsibility_ratio # RInt(0)
                /\ RLe(Rat(1, 1000), calls[k].returned[1].responsibility_ratio)

\* the report shows the ratio 0.001 for an entity of intention 0.1 and
\* negligence 100
C28_Witness ==
    /\ pc = "returned"
    /\ \E n \in 1..Len(report[1].entity_assessments) :
        LET a == report[1].entity_assessments[n]
        IN /\ a.responsibility_ratio = Rat(1, 1000)
           /\ a.intention_score = Rat(1, 10)
           /\ a.negligence_score = RInt(100)
           /\ a.mentions > 0

\* the responsibility analysis raised, or its except block has run
AnalysisFailed == pc = "raised" \/ responsibility \in {"FAILED", "SKIPPED"}

\* the pipeline ended with the PDF step made and a summary that reports the
\* analysis as failed or skipped
EndedWithSummary ==
    /\ pipeline_pc = "returned"
    /\ returned \in {<<"summary">>, <<"0">>}
    /\ InList("pdf", steps)
    /\ summary # <<>>
    /\ summary[1].responsibility \in {"FAILED", "SKIPPED"}
    /\ summary[1].sentences = Len(pipeline_results[1].sentences)

\* C29: in extract_risk_factors and in main of run.py the extraction JSON and
\* the HTML report are written before the responsibility analysis starts; an
\* exception of the analysis does not end the pipeline: the PDF step is made
\* afterwards and the summary of the extraction is given, with the analysis
\* reported as failed or skipped.
C29_AnalysisFailureTolerated ==
    /\ [](pc # "idle" =>
            /\ Len(steps) >= 3
            /\ steps[1] = "json" /\ steps[2] = "html" /\ steps[3] = "analysis")
    /\ [][AnalysisFailed' => pipeline_pc' \notin {"aborted", "idle"}
                             /\ returned' \notin {<<"exception">>, <<"Error during extraction">>}]_vars
    /\ [](AnalysisFailed /\ InList("pdf", steps)
            => steps[Len(steps)] \in {"pdf", "summary"} /\ responsibility # "")
    /\ (AnalysisFailed ~> EndedWithSummary)

\* the analysis raised on a subject that no sentence mentions, and
\* extract_risk_factors returned its summary after the PDF step
C29_Witness ==
    /\ pc = "raised"
    /\ entry = "extract_risk_factors"
    /\ EndedWithSummary
    /\ summary[1].responsibility = "FAILED"
    /\ steps = <<"json", "html", "analysis", "pdf", "summary">>

\* C30: the prime scan ends on every token sequence: an iteration of the loop
\* moves the cursor forward by at least 1 and not past the length of the
\* sequence, and adds at most one match, so that a scan that has begun reaches
\* the end of the sequence after at most one iteration per token.
C30_PrimeScanTerminates ==
    /\ [][(scan_pc = "scan" /\ scan_pc' = "scan") =>
            /\ scan_i' >= scan_i + 1
            /\ scan_i' <= Len(scan_sent.tokens)
            /\ Len(scan_primes') <= Len(scan_primes) + 1]_vars
    /\ [](scan_i <= Len(scan_sent.tokens) /\ Len(scan_primes) <= scan_i)
    /\ (scan_pc = "scan" ~> (scan_pc # "idle" /\ scan_i = Len(scan_sent.tokens)))

\* a scan of a sentence of four tokens has ended, after a match of more than
\* one token and so in fewer iterations than tokens
C30_Witness ==
    /\ scan_pc = "returned"
    /\ Len(scan_sent.tokens) = MaxScanTokens
    /\ scan_i = Len(scan_sent.tokens)
    /\ \E k \in 1..Len(scan_primes) : Cardinality(MatchSpan(scan_primes[k])) > 1

====
